---- MODULE Spec2Model ----
(***************************************************************************)
(* A model of the event-driven backtest pipeline of                        *)
(* MicrostructureAndExecution: the order book, the signal engine, the      *)
(* mean-reversion strategy, the execution simulator, the accountant and    *)
(* BacktestEngine.run, the loop that sequences them.                       *)
(*                                                                         *)
(* Numbers.  Python floats are modelled by exact rationals <<n, d>> with   *)
(* d > 0 and gcd(n, d) = 1, so rounding error is outside the model.  Book  *)
(* levels keep the integers the inputs carry.  A z-score z is irrational   *)
(* in general (it divides by a square root) and is held as the rational    *)
(* sign(z) * z^2, an order-preserving injective image of z: comparing z    *)
(* with a threshold t >= 0 is comparing the image with t^2.                *)
(***************************************************************************)
EXTENDS Integers, Sequences, FiniteSets, TLC

VARIABLES
    orderbook,      \* OrderBook: [depth, bids, asks]
    signal_engine,  \* SignalEngine: [window_size, imbalance_depth, mid_prices, returns, imbalances, prev_mid_price]
    strategy,       \* MeanReversionStrategy: [z_entry_threshold, z_exit_threshold, order_size, current_position, entry_z_score]
    execution,      \* ExecutionSimulator: [taker_fee]
    accountant,     \* Accountant: [initial_cash, cash, position, avg_entry_price, realized_pnl, trade_history]
    replayer,       \* L2Replayer: [data, current_index]
    trade_log,      \* BacktestEngine.trade_log
    pnl_history,    \* BacktestEngine.pnl_history
    signal_history, \* BacktestEngine.signal_history
    timestamps,     \* BacktestEngine.timestamps
    event_count,    \* the event_count of BacktestEngine.run
    pc,             \* where BacktestEngine.run stands: init, running, completed, failed
    call,           \* the last direct call of a component method and its arguments
    ret,            \* what that call returned
    raised,         \* the exception the last call or transition raised, or None
    second          \* a second, independent component set and its histories

vars == <<orderbook, signal_engine, strategy, execution, accountant, replayer,
          trade_log, pnl_history, signal_history, timestamps, event_count, pc,
          call, ret, raised, second>>

\* Python's None where a number, a tuple or an object is expected (TLC compares a
\* string only with strings, so absent strings have a spelling of their own).
None == <<>>

\* No exception raised; no string.
NoException == "NoException"

NoneStr == "None"

(***************************************************************************)
(* Bounds of the model, and the configuration of src/config.py.  The       *)
(* configured depth, window and order size (5, 100, 5 and 100 in           *)
(* config.py) are scaled down: every component takes them as constructor   *)
(* arguments, and the model constructs the components with these values.   *)
(***************************************************************************)
ORDER_BOOK_DEPTH == 2
SIGNAL_WINDOW_SIZE == 3
IMBALANCE_DEPTH == 2
ORDER_SIZE == 2
Z_ENTRY_THRESHOLD == 2
Z_EXIT_THRESHOLD == <<1, 2>>
TAKER_FEE == <<1, 1000>>
INITIAL_CASH == 100000

MaxSnap == 3
MaxQty == 3

Prices == {1, 2, 3}
\* Sizes a diff may carry: negative, zero, and two positive sizes.
DiffSizes == {-1, 0, 1, 2}
BookSides == {"bid", "ask", "BID", "buy"}
DiffActions == {"update", "remove"}
OrderSides == {"buy", "sell", "SELL", "bid"}
Quantities == (-1)..MaxQty

(***************************************************************************)
(* Rational arithmetic.                                                    *)
(***************************************************************************)
Abs(i) == IF i < 0 THEN -i ELSE i

Min(i, j) == IF i <= j THEN i ELSE j

Max(i, j) == IF i >= j THEN i ELSE j

RECURSIVE GCD(_, _)
GCD(a, b) == IF b = 0 THEN a ELSE GCD(b, a % b)

RNorm(n, d) ==
    LET s == IF d < 0 THEN -1 ELSE 1
        g == GCD(Abs(n), Abs(d))
    IN  <<(s * n) \div g, (s * d) \div g>>

R(i) == <<i, 1>>

RZero == <<0, 1>>

RAdd(a, b) ==
    LET g == GCD(a[2], b[2])
    IN  RNorm(a[1] * (b[2] \div g) + b[1] * (a[2] \div g), (a[2] \div g) * b[2])

RNeg(a) == <<-a[1], a[2]>>

RSub(a, b) == RAdd(a, RNeg(b))

RMul(a, b) ==
    LET g1 == GCD(Abs(a[1]), b[2])
        g2 == GCD(Abs(b[1]), a[2])
    IN  RNorm((a[1] \div g1) * (b[1] \div g2), (a[2] \div g2) * (b[2] \div g1))

\* b is not zero.
RDiv(a, b) == RMul(a, RNorm(b[2], b[1]))

RLt(a, b) == a[1] * b[2] < b[1] * a[2]

RLe(a, b) == a[1] * b[2] <= b[1] * a[2]

RAbs(a) == <<Abs(a[1]), a[2]>>

RMin(a, b) == IF RLe(a, b) THEN a ELSE b

RSign(a) == IF a[1] > 0 THEN 1 ELSE IF a[1] < 0 THEN -1 ELSE 0

(***************************************************************************)
(* Python helpers.                                                         *)
(***************************************************************************)
\* str.lower() on the side tags the model draws.
Lower(s) ==
    CASE s = "BID" -> "bid"
      [] s = "ASK" -> "ask"
      [] s = "BUY" -> "buy"
      [] s = "SELL" -> "sell"
      [] OTHER -> s

\* s[:n]
Take(s, n) ==
    IF n >= 0 THEN SubSeq(s, 1, Min(n, Len(s)))
    ELSE SubSeq(s, 1, Max(0, Len(s) + n))

\* s[:-1]
DropLast(s) == Take(s, -1)

\* The levels of s whose price is not `price`, in order.
WithoutPrice(s, price) == SelectSeq(s, LAMBDA l : l[1] # price)

\* x placed after every level of the ascending ladder s priced <= x.
InsertAsc(x, s) ==
    LET k == Cardinality({i \in 1..Len(s) : s[i][1] <= x[1]})
    IN  SubSeq(s, 1, k) \o <<x>> \o SubSeq(s, k + 1, Len(s))

\* x placed after every level of the descending ladder s priced >= x.
InsertDesc(x, s) ==
    LET k == Cardinality({i \in 1..Len(s) : s[i][1] >= x[1]})
    IN  SubSeq(s, 1, k) \o <<x>> \o SubSeq(s, k + 1, Len(s))

\* sorted(s, key=price): stable, ascending.
RECURSIVE SortAsc(_)
SortAsc(s) ==
    IF s = <<>> THEN <<>>
    ELSE InsertAsc(s[Len(s)], SortAsc(SubSeq(s, 1, Len(s) - 1)))

\* sorted(s, key=price, reverse=True): stable, descending.
RECURSIVE SortDesc(_)
SortDesc(s) ==
    IF s = <<>> THEN <<>>
    ELSE InsertDesc(s[Len(s)], SortDesc(SubSeq(s, 1, Len(s) - 1)))

(***************************************************************************)
(* OrderBook (src/microstructure/orderbook.py).                            *)
(***************************************************************************)
\* OrderBook(depth): `depth or config.ORDER_BOOK_DEPTH`, 0 standing for every
\* falsy argument (None, 0).
OrderBookInit(depth) ==
    [depth |-> IF depth = 0 THEN ORDER_BOOK_DEPTH ELSE depth,
     bids |-> <<>>, asks |-> <<>>]

apply_snapshot(ob, bids, asks) ==
    [ob EXCEPT !.bids = Take(SortDesc(bids), ob.depth),
               !.asks = Take(SortAsc(asks), ob.depth)]

\* A variant of update_level that appends the new level without first
\* removing the level already held at that price.
update_level_KeepsExistingLevel(ob, side, price, size) ==
    IF Lower(side) = "bid" THEN
        [raised |-> NoException,
         ob |-> [ob EXCEPT !.bids =
            Take(SortDesc(Append(ob.bids, <<price, size>>)), ob.depth)]]
    ELSE IF Lower(side) = "ask" THEN
        [raised |-> NoException,
         ob |-> [ob EXCEPT !.asks =
            Take(SortAsc(Append(ob.asks, <<price, size>>)), ob.depth)]]
    ELSE [raised |-> "ValueError", ob |-> ob]

\* The book after the call and the exception raised, if any.
update_level(ob, side, price, size) ==
    IF Lower(side) = "bid" THEN
        [raised |-> NoException,
         ob |-> [ob EXCEPT !.bids =
            Take(SortDesc(Append(WithoutPrice(ob.bids, price), <<price, size>>)),
                 ob.depth)]]
    ELSE IF Lower(side) = "ask" THEN
        [raised |-> NoException,
         ob |-> [ob EXCEPT !.asks =
            Take(SortAsc(Append(WithoutPrice(ob.asks, price), <<price, size>>)),
                 ob.depth)]]
    ELSE [raised |-> "ValueError", ob |-> ob]

\* A variant of remove_level that takes a side it does not know as nothing to
\* remove, instead of raising.
remove_level_IgnoresUnknownSide(ob, side, price) ==
    IF Lower(side) = "bid" THEN
        [raised |-> NoException, ob |-> [ob EXCEPT !.bids = WithoutPrice(ob.bids, price)]]
    ELSE IF Lower(side) = "ask" THEN
        [raised |-> NoException, ob |-> [ob EXCEPT !.asks = WithoutPrice(ob.asks, price)]]
    ELSE [raised |-> NoException, ob |-> ob]

remove_level(ob, side, price) ==
    IF Lower(side) = "bid" THEN
        [raised |-> NoException, ob |-> [ob EXCEPT !.bids = WithoutPrice(ob.bids, price)]]
    ELSE IF Lower(side) = "ask" THEN
        [raised |-> NoException, ob |-> [ob EXCEPT !.asks = WithoutPrice(ob.asks, price)]]
    ELSE [raised |-> "ValueError", ob |-> ob]

\* A variant of apply_diff that decides on the size alone and never reads the
\* action: a remove with a positive size is stored as a level.
apply_diff_IgnoresAction(ob, side, price, size, action) ==
    IF size = 0
    THEN remove_level(ob, side, price)
    ELSE update_level(ob, side, price, size)

\* A variant of apply_diff that enforces best_bid < best_ask: a diff that would
\* leave the book crossed or locked is rejected and rolled back.
apply_diff_RejectsCrossed(ob, side, price, size, action) ==
    LET r == IF action = "remove" \/ size = 0
             THEN remove_level(ob, side, price)
             ELSE update_level(ob, side, price, size)
    IN  IF /\ r.ob.bids # <<>> /\ r.ob.asks # <<>>
           /\ r.ob.bids[1][1] >= r.ob.asks[1][1]
        THEN [raised |-> "ValueError", ob |-> ob]
        ELSE r

apply_diff(ob, side, price, size, action) ==
    IF action = "remove" \/ size = 0
    THEN remove_level(ob, side, price)
    ELSE update_level(ob, side, price, size)

\* A variant of best_bid that reads the last level of the ladder, the worst
\* bid held, instead of the first.
best_bid_TakesLastLevel(ob) ==
    IF ob.bids # <<>> THEN R(ob.bids[Len(ob.bids)][1]) ELSE None

best_bid(ob) == IF ob.bids # <<>> THEN R(ob.bids[1][1]) ELSE None

best_ask(ob) == IF ob.asks # <<>> THEN R(ob.asks[1][1]) ELSE None

mid_price(ob) ==
    IF best_bid(ob) = None \/ best_ask(ob) = None THEN None
    ELSE RDiv(RAdd(best_bid(ob), best_ask(ob)), R(2))

spread(ob) ==
    IF best_bid(ob) = None \/ best_ask(ob) = None THEN None
    ELSE RSub(best_ask(ob), best_bid(ob))

top_depth(ob, k) ==
    LET kk == IF k = 0 THEN ob.depth ELSE k
    IN  <<Take(ob.bids, kk), Take(ob.asks, kk)>>

(***************************************************************************)
(* ExecutionSimulator (src/trading/execution.py).                          *)
(***************************************************************************)
ExecutionInit(taker_fee) ==
    [taker_fee |-> IF taker_fee = None \/ taker_fee = RZero
                   THEN TAKER_FEE ELSE taker_fee]

ZeroFill == <<RZero, RZero, RZero, RZero>>

\* WalkBook taking every level whole, whatever remains of the order.
RECURSIVE WalkBookWholeLevels(_, _, _)
WalkBookWholeLevels(levels, i, acc) ==
    IF i > Len(levels) \/ RLe(acc.remaining, RZero) THEN acc
    ELSE LET fill_at_level == R(levels[i][2])
         IN  WalkBookWholeLevels(levels, i + 1,
                 [remaining |-> RSub(acc.remaining, fill_at_level),
                  total |-> RAdd(acc.total, RMul(fill_at_level, R(levels[i][1]))),
                  filled |-> RAdd(acc.filled, fill_at_level)])

\* The walk's loop over the levels from index i on; acc is
\* [remaining, total, filled].
RECURSIVE WalkBook(_, _, _)
WalkBook(levels, i, acc) ==
    IF i > Len(levels) \/ RLe(acc.remaining, RZero) THEN acc
    ELSE LET fill_at_level == RMin(acc.remaining, R(levels[i][2]))
         IN  WalkBook(levels, i + 1,
                 [remaining |-> RSub(acc.remaining, fill_at_level),
                  total |-> RAdd(acc.total, RMul(fill_at_level, R(levels[i][1]))),
                  filled |-> RAdd(acc.filled, fill_at_level)])

execute_buy(ex, ob, quantity) ==
    IF ob.asks = <<>> THEN ZeroFill
    ELSE LET best_ask_price == R(ob.asks[1][1])
             w == WalkBook(ob.asks, 1,
                      [remaining |-> quantity, total |-> RZero, filled |-> RZero])
         IN  IF w.filled = RZero THEN ZeroFill
             ELSE LET fill_price == RDiv(w.total, w.filled)
                  IN  <<fill_price, w.filled,
                        RMul(RMul(w.filled, fill_price), ex.taker_fee),
                        RMul(RSub(fill_price, best_ask_price), w.filled)>>

execute_sell(ex, ob, quantity) ==
    IF ob.bids = <<>> THEN ZeroFill
    ELSE LET best_bid_price == R(ob.bids[1][1])
             w == WalkBook(ob.bids, 1,
                      [remaining |-> quantity, total |-> RZero, filled |-> RZero])
         IN  IF w.filled = RZero THEN ZeroFill
             ELSE LET fill_price == RDiv(w.total, w.filled)
                  IN  <<fill_price, w.filled,
                        RMul(RMul(w.filled, fill_price), ex.taker_fee),
                        RMul(RSub(best_bid_price, fill_price), w.filled)>>

\* execute_market_order testing the quantity before the side.
execute_market_order_QuantityFirst(ex, ob, side, quantity) ==
    IF RLe(quantity, RZero) THEN [raised |-> NoException, value |-> ZeroFill]
    ELSE IF Lower(side) \notin {"buy", "sell"} THEN [raised |-> "ValueError", value |-> None]
    ELSE IF Lower(side) = "buy" THEN [raised |-> NoException, value |-> execute_buy(ex, ob, quantity)]
    ELSE [raised |-> NoException, value |-> execute_sell(ex, ob, quantity)]

\* execute_market_order raising on a side without liquidity, as its docstring has it.
execute_market_order_NoLiquidityRaises(ex, ob, side, quantity) ==
    IF Lower(side) \notin {"buy", "sell"} THEN [raised |-> "ValueError", value |-> None]
    ELSE IF RLe(quantity, RZero) THEN [raised |-> NoException, value |-> ZeroFill]
    ELSE IF Lower(side) = "buy" THEN
        IF ob.asks = <<>> THEN [raised |-> "ValueError", value |-> None]
        ELSE [raised |-> NoException, value |-> execute_buy(ex, ob, quantity)]
    ELSE IF ob.bids = <<>> THEN [raised |-> "ValueError", value |-> None]
    ELSE [raised |-> NoException, value |-> execute_sell(ex, ob, quantity)]

\* The value returned (None when the call raises) and the exception.
execute_market_order(ex, ob, side, quantity) ==
    IF Lower(side) \notin {"buy", "sell"} THEN [raised |-> "ValueError", value |-> None]
    ELSE IF RLe(quantity, RZero) THEN [raised |-> NoException, value |-> ZeroFill]
    ELSE IF Lower(side) = "buy" THEN [raised |-> NoException, value |-> execute_buy(ex, ob, quantity)]
    ELSE [raised |-> NoException, value |-> execute_sell(ex, ob, quantity)]

(***************************************************************************)
(* Accountant (src/trading/accounting.py).                                 *)
(***************************************************************************)
AccountantInit(initial_cash) ==
    [initial_cash |-> initial_cash,
     cash |-> initial_cash,
     position |-> RZero,
     avg_entry_price |-> RZero,
     realized_pnl |-> RZero,
     trade_history |-> <<>>]

\* _record_buy leaving the fee out of the cost.
record_buy_NoFee(a, price, size, fee) ==
    LET cost == RMul(size, price)
        b == IF RLt(a.position, RZero) THEN
                 IF RLe(size, RAbs(a.position)) THEN
                     [a EXCEPT !.realized_pnl =
                                   RAdd(@, RMul(RSub(a.avg_entry_price, price), size)),
                               !.position = RAdd(@, size)]
                 ELSE LET close_size == RAbs(a.position)
                      IN  [a EXCEPT !.realized_pnl =
                                        RAdd(@, RMul(RSub(a.avg_entry_price, price), close_size)),
                                    !.position = RSub(size, close_size),
                                    !.avg_entry_price = price]
             ELSE IF a.position = RZero THEN
                 [a EXCEPT !.position = size, !.avg_entry_price = price]
             ELSE LET total_cost == RAdd(RMul(a.position, a.avg_entry_price),
                                         RMul(size, price))
                  IN  [a EXCEPT !.position = RAdd(a.position, size),
                                !.avg_entry_price = RDiv(total_cost, RAdd(a.position, size))]
    IN  [b EXCEPT !.cash = RSub(@, cost)]

\* _record_buy blending the old average into the entry price of the position a
\* reversal opens.
record_buy_BlendsOnReversal(a, price, size, fee) ==
    LET cost == RAdd(RMul(size, price), fee)
        b == IF RLt(a.position, RZero) THEN
                 IF RLe(size, RAbs(a.position)) THEN
                     [a EXCEPT !.realized_pnl =
                                   RAdd(@, RMul(RSub(a.avg_entry_price, price), size)),
                               !.position = RAdd(@, size)]
                 ELSE LET close_size == RAbs(a.position)
                      IN  [a EXCEPT !.realized_pnl =
                                        RAdd(@, RMul(RSub(a.avg_entry_price, price), close_size)),
                                    !.position = RSub(size, close_size),
                                    !.avg_entry_price =
                                        RDiv(RAdd(RMul(close_size, a.avg_entry_price),
                                                  RMul(size, price)),
                                             RAdd(close_size, size))]
             ELSE IF a.position = RZero THEN
                 [a EXCEPT !.position = size, !.avg_entry_price = price]
             ELSE LET total_cost == RAdd(RMul(a.position, a.avg_entry_price),
                                         RMul(size, price))
                  IN  [a EXCEPT !.position = RAdd(a.position, size),
                                !.avg_entry_price = RDiv(total_cost, RAdd(a.position, size))]
    IN  [b EXCEPT !.cash = RSub(@, cost)]

\* _record_buy opening a position from flat without resetting avg_entry_price.
record_buy_FlatKeepsAverage(a, price, size, fee) ==
    LET cost == RAdd(RMul(size, price), fee)
        b == IF RLt(a.position, RZero) THEN
                 IF RLe(size, RAbs(a.position)) THEN
                     [a EXCEPT !.realized_pnl =
                                   RAdd(@, RMul(RSub(a.avg_entry_price, price), size)),
                               !.position = RAdd(@, size)]
                 ELSE LET close_size == RAbs(a.position)
                      IN  [a EXCEPT !.realized_pnl =
                                        RAdd(@, RMul(RSub(a.avg_entry_price, price), close_size)),
                                    !.position = RSub(size, close_size),
                                    !.avg_entry_price = price]
             ELSE IF a.position = RZero THEN
                 [a EXCEPT !.position = size]
             ELSE LET total_cost == RAdd(RMul(a.position, a.avg_entry_price),
                                         RMul(size, price))
                  IN  [a EXCEPT !.position = RAdd(a.position, size),
                                !.avg_entry_price = RDiv(total_cost, RAdd(a.position, size))]
    IN  [b EXCEPT !.cash = RSub(@, cost)]

record_buy(a, price, size, fee) ==
    LET cost == RAdd(RMul(size, price), fee)
        b == IF RLt(a.position, RZero) THEN
                 IF RLe(size, RAbs(a.position)) THEN
                     [a EXCEPT !.realized_pnl =
                                   RAdd(@, RMul(RSub(a.avg_entry_price, price), size)),
                               !.position = RAdd(@, size)]
                 ELSE LET close_size == RAbs(a.position)
                      IN  [a EXCEPT !.realized_pnl =
                                        RAdd(@, RMul(RSub(a.avg_entry_price, price), close_size)),
                                    !.position = RSub(size, close_size),
                                    !.avg_entry_price = price]
             ELSE IF a.position = RZero THEN
                 [a EXCEPT !.position = size, !.avg_entry_price = price]
             ELSE LET total_cost == RAdd(RMul(a.position, a.avg_entry_price),
                                         RMul(size, price))
                  IN  [a EXCEPT !.position = RAdd(a.position, size),
                                !.avg_entry_price = RDiv(total_cost, RAdd(a.position, size))]
    IN  [b EXCEPT !.cash = RSub(@, cost)]

\* _record_sell realizing, on a reduction, the PnL of the whole position held.
record_sell_RealizesWholePosition(a, price, size, fee) ==
    LET proceeds == RSub(RMul(size, price), fee)
        b == IF RLt(RZero, a.position) THEN
                 IF RLe(size, a.position) THEN
                     [a EXCEPT !.realized_pnl =
                                   RAdd(@, RMul(RSub(price, a.avg_entry_price), a.position)),
                               !.position = RSub(@, size)]
                 ELSE LET close_size == a.position
                      IN  [a EXCEPT !.realized_pnl =
                                        RAdd(@, RMul(RSub(price, a.avg_entry_price), close_size)),
                                    !.position = RNeg(RSub(size, close_size)),
                                    !.avg_entry_price = price]
             ELSE IF a.position = RZero THEN
                 [a EXCEPT !.position = RNeg(size), !.avg_entry_price = price]
             ELSE LET total_proceeds == RAdd(RMul(RAbs(a.position), a.avg_entry_price),
                                             RMul(size, price))
                  IN  [a EXCEPT !.position = RSub(a.position, size),
                                !.avg_entry_price =
                                    RDiv(total_proceeds, RAbs(RSub(a.position, size)))]
    IN  [b EXCEPT !.cash = RAdd(@, proceeds)]

\* _record_sell keeping, on a reversal, the average entry price of the long
\* position it closed.
record_sell_ReversalKeepsAverage(a, price, size, fee) ==
    LET proceeds == RSub(RMul(size, price), fee)
        b == IF RLt(RZero, a.position) THEN
                 IF RLe(size, a.position) THEN
                     [a EXCEPT !.realized_pnl =
                                   RAdd(@, RMul(RSub(price, a.avg_entry_price), size)),
                               !.position = RSub(@, size)]
                 ELSE LET close_size == a.position
                      IN  [a EXCEPT !.realized_pnl =
                                        RAdd(@, RMul(RSub(price, a.avg_entry_price), close_size)),
                                    !.position = RNeg(RSub(size, close_size))]
             ELSE IF a.position = RZero THEN
                 [a EXCEPT !.position = RNeg(size), !.avg_entry_price = price]
             ELSE LET total_proceeds == RAdd(RMul(RAbs(a.position), a.avg_entry_price),
                                             RMul(size, price))
                  IN  [a EXCEPT !.position = RSub(a.position, size),
                                !.avg_entry_price =
                                    RDiv(total_proceeds, RAbs(RSub(a.position, size)))]
    IN  [b EXCEPT !.cash = RAdd(@, proceeds)]

record_sell(a, price, size, fee) ==
    LET proceeds == RSub(RMul(size, price), fee)
        b == IF RLt(RZero, a.position) THEN
                 IF RLe(size, a.position) THEN
                     [a EXCEPT !.realized_pnl =
                                   RAdd(@, RMul(RSub(price, a.avg_entry_price), size)),
                               !.position = RSub(@, size)]
                 ELSE LET close_size == a.position
                      IN  [a EXCEPT !.realized_pnl =
                                        RAdd(@, RMul(RSub(price, a.avg_entry_price), close_size)),
                                    !.position = RNeg(RSub(size, close_size)),
                                    !.avg_entry_price = price]
             ELSE IF a.position = RZero THEN
                 [a EXCEPT !.position = RNeg(size), !.avg_entry_price = price]
             ELSE LET total_proceeds == RAdd(RMul(RAbs(a.position), a.avg_entry_price),
                                             RMul(size, price))
                  IN  [a EXCEPT !.position = RSub(a.position, size),
                                !.avg_entry_price =
                                    RDiv(total_proceeds, RAbs(RSub(a.position, size)))]
    IN  [b EXCEPT !.cash = RAdd(@, proceeds)]

\* record_fill writing the position and cash held before the fill in the
\* record it appends.
record_fill_RecordsStateBefore(a, timestamp, side, fill_price, fill_size, fee) ==
    IF Lower(side) \notin {"buy", "sell"} THEN [raised |-> "ValueError", acct |-> a]
    ELSE LET b == IF Lower(side) = "buy"
                  THEN record_buy(a, fill_price, fill_size, fee)
                  ELSE record_sell(a, fill_price, fill_size, fee)
         IN  [raised |-> NoException,
              acct |-> [b EXCEPT !.trade_history = Append(@,
                           [timestamp |-> timestamp,
                            side |-> Lower(side),
                            price |-> fill_price,
                            size |-> fill_size,
                            fee |-> fee,
                            position_after |-> a.position,
                            cash_after |-> a.cash])]]

\* The accountant after the call and the exception raised, if any.
record_fill(a, timestamp, side, fill_price, fill_size, fee) ==
    IF Lower(side) \notin {"buy", "sell"} THEN [raised |-> "ValueError", acct |-> a]
    ELSE LET b == IF Lower(side) = "buy"
                  THEN record_buy(a, fill_price, fill_size, fee)
                  ELSE record_sell(a, fill_price, fill_size, fee)
         IN  [raised |-> NoException,
              acct |-> [b EXCEPT !.trade_history = Append(@,
                           [timestamp |-> timestamp,
                            side |-> Lower(side),
                            price |-> fill_price,
                            size |-> fill_size,
                            fee |-> fee,
                            position_after |-> b.position,
                            cash_after |-> b.cash])]]

update_unrealized_pnl(a, current_mid_price) ==
    IF a.position = RZero THEN RZero
    ELSE IF RLt(RZero, a.position)
    THEN RMul(RSub(current_mid_price, a.avg_entry_price), a.position)
    ELSE RMul(RSub(a.avg_entry_price, current_mid_price), RAbs(a.position))

\* get_metrics reporting the realized PnL as the total PnL whatever the mid price.
get_metrics_TotalIsRealized(a, current_mid_price) ==
    LET base == [position |-> a.position,
                 avg_entry_price |-> a.avg_entry_price,
                 cash |-> a.cash,
                 realized_pnl |-> a.realized_pnl,
                 unrealized_pnl |-> RZero,
                 total_pnl |-> a.realized_pnl,
                 total_value |-> a.cash]
    IN  IF current_mid_price = None THEN base
        ELSE LET unrealized == update_unrealized_pnl(a, current_mid_price)
             IN  [base EXCEPT
                     !.unrealized_pnl = unrealized,
                     !.total_value = IF a.position # RZero
                                     THEN RAdd(a.cash, RMul(a.position, current_mid_price))
                                     ELSE a.cash]

get_metrics(a, current_mid_price) ==
    LET base == [position |-> a.position,
                 avg_entry_price |-> a.avg_entry_price,
                 cash |-> a.cash,
                 realized_pnl |-> a.realized_pnl,
                 unrealized_pnl |-> RZero,
                 total_pnl |-> a.realized_pnl,
                 total_value |-> a.cash]
    IN  IF current_mid_price = None THEN base
        ELSE LET unrealized == update_unrealized_pnl(a, current_mid_price)
             IN  [base EXCEPT
                     !.unrealized_pnl = unrealized,
                     !.total_pnl = RAdd(a.realized_pnl, unrealized),
                     !.total_value = IF a.position # RZero
                                     THEN RAdd(a.cash, RMul(a.position, current_mid_price))
                                     ELSE a.cash]

(***************************************************************************)
(* SignalEngine (src/microstructure/signals.py).                           *)
(***************************************************************************)
SignalEngineInit(window_size, imbalance_depth) ==
    [window_size |-> IF window_size = 0 THEN SIGNAL_WINDOW_SIZE ELSE window_size,
     imbalance_depth |-> IF imbalance_depth = 0 THEN IMBALANCE_DEPTH ELSE imbalance_depth,
     mid_prices |-> <<>>,
     returns |-> <<>>,
     imbalances |-> <<>>,
     prev_mid_price |-> None]

\* A variant of deque.append for a deque without maxlen: a growable list.
DequeAppend_Unbounded(s, x, maxlen) == Append(s, x)

\* deque(maxlen).append(x): the oldest entry leaves a full deque.
DequeAppend(s, x, maxlen) ==
    IF maxlen = 0 THEN <<>>
    ELSE IF Len(s) >= maxlen THEN Append(Tail(s), x)
    ELSE Append(s, x)

\* np.log(x) for x > 0, to the first term of its series in (x - 1) / (x + 1):
\* zero at 1, increasing, odd under x -> 1/x.
LogApprox(x) == RDiv(RMul(R(2), RSub(x, R(1))), RAdd(x, R(1)))

RECURSIVE RSum(_)
RSum(s) == IF s = <<>> THEN RZero ELSE RAdd(s[1], RSum(Tail(s)))

\* np.mean
Mean(s) == RDiv(RSum(s), R(Len(s)))

\* The mean of the squared distances of the entries of s to m.
MeanSquare(s, m) ==
    RDiv(RSum([i \in 1..Len(s) |-> RMul(RSub(s[i], m), RSub(s[i], m))]), R(Len(s)))

\* np.std squared: the population variance.
Variance(s) == MeanSquare(s, Mean(s))

\* The image sign(x) * x^2 under which z-scores and thresholds are held.
SignedSquare(x) == RMul(R(RSign(x)), RMul(x, x))

\* (value - mean) / std, as its image; None - mean is a TypeError.
standardize(value, mean, variance) ==
    IF variance = RZero THEN [raised |-> NoException, value |-> RZero]
    ELSE IF value = None THEN [raised |-> "TypeError", value |-> None]
    ELSE [raised |-> NoException,
          value |-> RDiv(SignedSquare(RSub(value, mean)), variance)]

\* _z_score(value, window): the z-score's image and the exception raised, if any.
z_score(value, window) ==
    IF Len(window) < 2 THEN [raised |-> NoException, value |-> RZero]
    ELSE standardize(value, Mean(window), Variance(window))

RECURSIVE SumLevelSizes(_)
SumLevelSizes(levels) ==
    IF levels = <<>> THEN 0 ELSE levels[1][2] + SumLevelSizes(Tail(levels))

calculate_depth_imbalance(se, ob) ==
    LET top == top_depth(ob, se.imbalance_depth)
        bid_size == SumLevelSizes(top[1])
        ask_size == SumLevelSizes(top[2])
        total_size == bid_size + ask_size
    IN  IF top[1] = <<>> \/ top[2] = <<>> THEN None
        ELSE IF total_size = 0 THEN None
        ELSE RNorm(bid_size - ask_size, total_size)

NoSignals ==
    [mid_price |-> None, spread |-> None, mid_price_return |-> None,
     depth_imbalance |-> None, imbalance_zscore |-> None, return_zscore |-> None]

\* The log return of the mid price on the previous one, 0.0 without one.
mid_price_return(se, mid) ==
    IF se.prev_mid_price # None /\ RLt(RZero, se.prev_mid_price)
    THEN LogApprox(RDiv(mid, se.prev_mid_price))
    ELSE RZero

\* The engine once update has stored the return and the mid price.
push_mid(se, mid) ==
    [se EXCEPT
        !.returns = IF se.prev_mid_price # None /\ RLt(RZero, se.prev_mid_price)
                    THEN DequeAppend(@, mid_price_return(se, mid), se.window_size)
                    ELSE @,
        !.mid_prices = DequeAppend(@, mid, se.window_size + 1),
        !.prev_mid_price = mid]

\* The engine once update has stored the imbalance, if there is one.
push_imbalance(se, imbalance) ==
    [se EXCEPT !.imbalances = IF imbalance # None
                              THEN DequeAppend(@, imbalance, se.window_size)
                              ELSE @]

\* The z-score of value against a window that has filled up, its last entry
\* left out; None before that.
window_zscore(value, window, window_size) ==
    IF Len(window) >= window_size THEN z_score(value, DropLast(window))
    ELSE [raised |-> NoException, value |-> None]

\* What update returns, given the two z-scores.
scored_signals(se, ob, mid, log_return, imbalance, zi, zr) ==
    IF zi.raised # NoException THEN [raised |-> zi.raised, se |-> se, signals |-> None]
    ELSE IF zr.raised # NoException THEN [raised |-> zr.raised, se |-> se, signals |-> None]
    ELSE [raised |-> NoException, se |-> se,
          signals |-> [mid_price |-> mid,
                       spread |-> spread(ob),
                       mid_price_return |-> log_return,
                       depth_imbalance |-> imbalance,
                       imbalance_zscore |-> zi.value,
                       return_zscore |-> zr.value]]

\* update from the point where the windows have been fed.
update_zscores(se, ob, mid, log_return, imbalance) ==
    scored_signals(se, ob, mid, log_return, imbalance,
                   window_zscore(imbalance, se.imbalances, se.window_size),
                   window_zscore(log_return, se.returns, se.window_size))

\* update once the book is known to have a mid price.
update_with_mid(se, ob, mid, imbalance) ==
    update_zscores(push_imbalance(push_mid(se, mid), imbalance), ob, mid,
                   mid_price_return(se, mid), imbalance)

\* A variant of update that forgets the previous mid price when the book has
\* none, so that the next return is taken as a first observation.
update_ForgetsPrevMid(se, ob) ==
    IF mid_price(ob) = None
    THEN [raised |-> NoException, se |-> [se EXCEPT !.prev_mid_price = None],
          signals |-> NoSignals]
    ELSE update_with_mid(se, ob, mid_price(ob), calculate_depth_imbalance(se, ob))

\* SignalEngine.update(orderbook): the engine after the call (as far as the call
\* got, when it raises), the snapshot returned and the exception raised, if any.
update(se, ob) ==
    IF mid_price(ob) = None
    THEN [raised |-> NoException, se |-> se, signals |-> NoSignals]
    ELSE update_with_mid(se, ob, mid_price(ob), calculate_depth_imbalance(se, ob))

(***************************************************************************)
(* MeanReversionStrategy (src/trading/strategy.py).                        *)
(***************************************************************************)
\* `x or default`: the default stands in for None and for 0 alike.
OrDefault(x, default) == IF x = None \/ x = RZero THEN default ELSE x

StrategyInit(z_entry_threshold, z_exit_threshold, order_size) ==
    [z_entry_threshold |-> OrDefault(z_entry_threshold, R(Z_ENTRY_THRESHOLD)),
     z_exit_threshold |-> OrDefault(z_exit_threshold, Z_EXIT_THRESHOLD),
     order_size |-> OrDefault(order_size, R(ORDER_SIZE)),
     current_position |-> NoneStr,
     entry_z_score |-> None]

\* z < t and z > t, for a z-score held as its image zz.
ZLt(zz, t) == RLt(zz, SignedSquare(t))

ZGt(zz, t) == RLt(SignedSquare(t), zz)

\* A variant of generate_signal that prefers the return z-score and falls
\* back to the imbalance z-score.
generate_signal_PrefersReturn(st, signals, current_position) ==
    LET z_score_ == IF signals.return_zscore # None THEN signals.return_zscore
                    ELSE signals.imbalance_zscore
        position_state == IF RLt(RZero, current_position) THEN "long"
                          ELSE IF RLt(current_position, RZero) THEN "short"
                          ELSE NoneStr
    IN  IF z_score_ = None THEN [st |-> st, decision |-> None]
        ELSE IF position_state = NoneStr THEN
            IF ZLt(z_score_, RNeg(st.z_entry_threshold))
            THEN [st |-> [st EXCEPT !.current_position = "long",
                                    !.entry_z_score = z_score_],
                  decision |-> <<"buy", st.order_size>>]
            ELSE IF ZGt(z_score_, st.z_entry_threshold)
            THEN [st |-> [st EXCEPT !.current_position = "short",
                                    !.entry_z_score = z_score_],
                  decision |-> <<"sell", st.order_size>>]
            ELSE [st |-> st, decision |-> None]
        ELSE IF position_state = "long" THEN
            IF ~ZLt(z_score_, RNeg(st.z_exit_threshold))
            THEN [st |-> [st EXCEPT !.current_position = NoneStr,
                                    !.entry_z_score = None],
                  decision |-> <<"sell", RAbs(current_position)>>]
            ELSE [st |-> st, decision |-> None]
        ELSE IF ~ZGt(z_score_, st.z_exit_threshold)
            THEN [st |-> [st EXCEPT !.current_position = NoneStr,
                                    !.entry_z_score = None],
                  decision |-> <<"buy", RAbs(current_position)>>]
            ELSE [st |-> st, decision |-> None]

\* A variant of generate_signal that takes the position state from the
\* strategy's own current_position instead of the argument's sign.
generate_signal_TrustsOwnPosition(st, signals, current_position) ==
    LET z_score_ == IF signals.imbalance_zscore # None THEN signals.imbalance_zscore
                    ELSE signals.return_zscore
        position_state == st.current_position
    IN  IF z_score_ = None THEN [st |-> st, decision |-> None]
        ELSE IF position_state = NoneStr THEN
            IF ZLt(z_score_, RNeg(st.z_entry_threshold))
            THEN [st |-> [st EXCEPT !.current_position = "long",
                                    !.entry_z_score = z_score_],
                  decision |-> <<"buy", st.order_size>>]
            ELSE IF ZGt(z_score_, st.z_entry_threshold)
            THEN [st |-> [st EXCEPT !.current_position = "short",
                                    !.entry_z_score = z_score_],
                  decision |-> <<"sell", st.order_size>>]
            ELSE [st |-> st, decision |-> None]
        ELSE IF position_state = "long" THEN
            IF ~ZLt(z_score_, RNeg(st.z_exit_threshold))
            THEN [st |-> [st EXCEPT !.current_position = NoneStr,
                                    !.entry_z_score = None],
                  decision |-> <<"sell", RAbs(current_position)>>]
            ELSE [st |-> st, decision |-> None]
        ELSE IF ~ZGt(z_score_, st.z_exit_threshold)
            THEN [st |-> [st EXCEPT !.current_position = NoneStr,
                                    !.entry_z_score = None],
                  decision |-> <<"buy", RAbs(current_position)>>]
            ELSE [st |-> st, decision |-> None]

\* A variant of generate_signal whose exits trade on the side of the open
\* position: a long exits by buying, a short by selling.
generate_signal_ExitAddsExposure(st, signals, current_position) ==
    LET z_score_ == IF signals.imbalance_zscore # None THEN signals.imbalance_zscore
                    ELSE signals.return_zscore
        position_state == IF RLt(RZero, current_position) THEN "long"
                          ELSE IF RLt(current_position, RZero) THEN "short"
                          ELSE NoneStr
    IN  IF z_score_ = None THEN [st |-> st, decision |-> None]
        ELSE IF position_state = NoneStr THEN
            IF ZLt(z_score_, RNeg(st.z_entry_threshold))
            THEN [st |-> [st EXCEPT !.current_position = "long",
                                    !.entry_z_score = z_score_],
                  decision |-> <<"buy", st.order_size>>]
            ELSE IF ZGt(z_score_, st.z_entry_threshold)
            THEN [st |-> [st EXCEPT !.current_position = "short",
                                    !.entry_z_score = z_score_],
                  decision |-> <<"sell", st.order_size>>]
            ELSE [st |-> st, decision |-> None]
        ELSE IF position_state = "long" THEN
            IF ~ZLt(z_score_, RNeg(st.z_exit_threshold))
            THEN [st |-> [st EXCEPT !.current_position = NoneStr,
                                    !.entry_z_score = None],
                  decision |-> <<"buy", RAbs(current_position)>>]
            ELSE [st |-> st, decision |-> None]
        ELSE IF ~ZGt(z_score_, st.z_exit_threshold)
            THEN [st |-> [st EXCEPT !.current_position = NoneStr,
                                    !.entry_z_score = None],
                  decision |-> <<"sell", RAbs(current_position)>>]
            ELSE [st |-> st, decision |-> None]

\* generate_signal(signals, current_position): the strategy after the call and
\* the decision returned, None or <<side, quantity>>.
generate_signal(st, signals, current_position) ==
    LET z_score_ == IF signals.imbalance_zscore # None THEN signals.imbalance_zscore
                    ELSE signals.return_zscore
        position_state == IF RLt(RZero, current_position) THEN "long"
                          ELSE IF RLt(current_position, RZero) THEN "short"
                          ELSE NoneStr
    IN  IF z_score_ = None THEN [st |-> st, decision |-> None]
        ELSE IF position_state = NoneStr THEN
            IF ZLt(z_score_, RNeg(st.z_entry_threshold))
            THEN [st |-> [st EXCEPT !.current_position = "long",
                                    !.entry_z_score = z_score_],
                  decision |-> <<"buy", st.order_size>>]
            ELSE IF ZGt(z_score_, st.z_entry_threshold)
            THEN [st |-> [st EXCEPT !.current_position = "short",
                                    !.entry_z_score = z_score_],
                  decision |-> <<"sell", st.order_size>>]
            ELSE [st |-> st, decision |-> None]
        ELSE IF position_state = "long" THEN
            IF ~ZLt(z_score_, RNeg(st.z_exit_threshold))
            THEN [st |-> [st EXCEPT !.current_position = NoneStr,
                                    !.entry_z_score = None],
                  decision |-> <<"sell", RAbs(current_position)>>]
            ELSE [st |-> st, decision |-> None]
        ELSE IF ~ZGt(z_score_, st.z_exit_threshold)
            THEN [st |-> [st EXCEPT !.current_position = NoneStr,
                                    !.entry_z_score = None],
                  decision |-> <<"buy", RAbs(current_position)>>]
            ELSE [st |-> st, decision |-> None]

(***************************************************************************)
(* The components called directly.  OrderBook's mutators and the           *)
(* simulator's execute_market_order are called with arguments drawn from   *)
(* the bounded sets above; `call` holds the call and its arguments, `ret`  *)
(* and `raised` its outcome, until the caller takes the result (Return)    *)
(* and makes its next call.                                                *)
(***************************************************************************)
NoCall == [op |-> NoneStr]

SeqsUpTo(S, n) == UNION {[1..k -> S] : k \in 0..n}

\* The levels a snapshot may carry: the lowest and the highest price, so that a
\* diff can insert between them.
SnapLevels == {<<1, 1>>, <<3, 1>>}

\* The ladders a snapshot may carry: unsorted, with repeated prices, longer
\* than the depth.
SnapLists == SeqsUpTo(SnapLevels, MaxSnap)

\* The (bids, asks) a snapshot may carry: MaxSnap levels in all.
SnapshotInputs == {in \in SnapLists \X SnapLists : Len(in[1]) + Len(in[2]) <= MaxSnap}

Unused == <<signal_engine, strategy, accountant, replayer, trade_log, pnl_history,
            signal_history, timestamps, event_count, pc, second>>

InitBook ==
    /\ orderbook = OrderBookInit(0)
    /\ execution = ExecutionInit(None)
    /\ signal_engine = None
    /\ strategy = None
    /\ accountant = None
    /\ replayer = None
    /\ trade_log = <<>>
    /\ pnl_history = <<>>
    /\ signal_history = <<>>
    /\ timestamps = <<>>
    /\ event_count = 0
    /\ pc = "init"
    /\ call = NoCall
    /\ ret = None
    /\ raised = NoException
    /\ second = None

\* OrderBook.apply_snapshot(bids, asks)
ApplySnapshot ==
    /\ call = NoCall
    /\ \E in \in SnapshotInputs :
        /\ orderbook' = apply_snapshot(orderbook, in[1], in[2])
        /\ call' = [op |-> "apply_snapshot", bids |-> in[1], asks |-> in[2]]
        /\ ret' = None
        /\ raised' = NoException
        /\ UNCHANGED <<execution, Unused>>

\* OrderBook.apply_diff(side, price, size, action)
ApplyDiff ==
    /\ call = NoCall
    /\ \E side \in BookSides, price \in Prices, size \in DiffSizes, action \in DiffActions :
        LET r == apply_diff(orderbook, side, price, size, action)
        IN  /\ orderbook' = r.ob
            /\ raised' = r.raised
            /\ call' = [op |-> "apply_diff", side |-> side, price |-> price,
                        size |-> size, action |-> action]
            /\ ret' = None
            /\ UNCHANGED <<execution, Unused>>

\* ExecutionSimulator.execute_market_order(orderbook, side, quantity)
ExecuteMarketOrder ==
    /\ call = NoCall
    /\ \E side \in OrderSides, quantity \in Quantities :
        LET r == execute_market_order(execution, orderbook, side, R(quantity))
        IN  /\ ret' = r.value
            /\ raised' = r.raised
            /\ call' = [op |-> "execute_market_order", side |-> side,
                        quantity |-> quantity]
            /\ UNCHANGED <<orderbook, execution, Unused>>

\* The caller takes the result of the call.
Return ==
    /\ call # NoCall
    /\ call' = NoCall
    /\ ret' = None
    /\ raised' = NoException
    /\ UNCHANGED <<orderbook, execution, Unused>>

NextBook == ApplySnapshot \/ ApplyDiff \/ ExecuteMarketOrder \/ Return

SpecBook == InitBook /\ [][NextBook]_vars

(***************************************************************************)
(* The accountant called directly: record_fill with fills drawn from the   *)
(* bounded sets below, MaxFills successful fills at most (trade_history    *)
(* grows with every one).                                                  *)
(***************************************************************************)
MaxFills == 3

FillSides == {"buy", "sell", "SELL"}
FillPrices == {R(1), R(3)}
FillSizes == {R(1), R(2)}
FillFees == {RZero, <<1, 2>>}

\* The (side, fill_price, fill_size, fee) of a call: every fill with a valid
\* side, and one with a side that is neither buy nor sell.
FillInputs ==
    (FillSides \X FillPrices \X FillSizes \X FillFees) \cup {<<"hold", R(1), R(1), RZero>>}

InitAcct ==
    /\ accountant = AccountantInit(R(INITIAL_CASH))
    /\ orderbook = None
    /\ execution = None
    /\ signal_engine = None
    /\ strategy = None
    /\ replayer = None
    /\ trade_log = <<>>
    /\ pnl_history = <<>>
    /\ signal_history = <<>>
    /\ timestamps = <<>>
    /\ event_count = 0
    /\ pc = "init"
    /\ call = NoCall
    /\ ret = None
    /\ raised = NoException
    /\ second = None

\* Accountant.record_fill(timestamp, side, fill_price, fill_size, fee)
RecordFill ==
    /\ Len(accountant.trade_history) < MaxFills
    /\ \E in \in FillInputs :
        LET side == in[1]
            price == in[2]
            size == in[3]
            fee == in[4]
            timestamp == Len(accountant.trade_history) + 1
            r == record_fill(accountant, timestamp, side, price, size, fee)
        IN  /\ accountant' = r.acct
            /\ raised' = r.raised
            /\ call' = [op |-> "record_fill", timestamp |-> timestamp, side |-> side,
                        price |-> price, size |-> size, fee |-> fee]
            /\ ret' = None
            /\ UNCHANGED <<orderbook, execution, signal_engine, strategy, replayer,
                           trade_log, pnl_history, signal_history, timestamps,
                           event_count, pc, second>>

NextAcct == RecordFill

SpecAcct == InitAcct /\ [][NextAcct]_vars

(***************************************************************************)
(* The accountant's reports called directly: get_metrics and               *)
(* update_unrealized_pnl on every accountant that fewer than MaxFills      *)
(* fills of SpecAcct lead to, at the mid prices below and, for             *)
(* get_metrics, without one.                                               *)
(***************************************************************************)
MidPrices == {R(1), R(2), R(3)}

\* The accountants after at most n calls of record_fill.
RECURSIVE AccountantsAfter(_)
AccountantsAfter(n) ==
    IF n = 0 THEN {AccountantInit(R(INITIAL_CASH))}
    ELSE AccountantsAfter(n - 1) \cup
         {record_fill(a, Len(a.trade_history) + 1, in[1], in[2], in[3], in[4]).acct :
              a \in AccountantsAfter(n - 1), in \in FillInputs}

InitMetrics ==
    /\ accountant \in AccountantsAfter(MaxFills - 1)
    /\ orderbook = None
    /\ execution = None
    /\ signal_engine = None
    /\ strategy = None
    /\ replayer = None
    /\ trade_log = <<>>
    /\ pnl_history = <<>>
    /\ signal_history = <<>>
    /\ timestamps = <<>>
    /\ event_count = 0
    /\ pc = "init"
    /\ call = NoCall
    /\ ret = None
    /\ raised = NoException
    /\ second = None

\* Accountant.get_metrics(current_mid_price): nothing of the accountant is assigned.
GetMetrics ==
    /\ \E mid \in MidPrices \cup {None} :
          /\ ret' = get_metrics(accountant, mid)
          /\ call' = [op |-> "get_metrics", mid |-> mid]
    /\ raised' = NoException
    /\ UNCHANGED <<accountant, orderbook, execution, signal_engine, strategy, replayer,
                   trade_log, pnl_history, signal_history, timestamps, event_count,
                   pc, second>>

\* Accountant.update_unrealized_pnl(current_mid_price): nothing of the accountant
\* is assigned.
UpdateUnrealizedPnl ==
    /\ \E mid \in MidPrices :
          /\ ret' = update_unrealized_pnl(accountant, mid)
          /\ call' = [op |-> "update_unrealized_pnl", mid |-> mid]
    /\ raised' = NoException
    /\ UNCHANGED <<accountant, orderbook, execution, signal_engine, strategy, replayer,
                   trade_log, pnl_history, signal_history, timestamps, event_count,
                   pc, second>>

NextMetrics == GetMetrics \/ UpdateUnrealizedPnl

SpecMetrics == InitMetrics /\ [][NextMetrics]_vars

(***************************************************************************)
(* The signal engine called directly: a caller that resets the book with   *)
(* apply_snapshot and calls SignalEngine.update on it, MaxUpdates times at *)
(* most; event_count counts the caller's update calls.  An update that     *)
(* raises leaves the engine as far as the call got, and the caller goes on.*)
(***************************************************************************)
MaxUpdates == 5

\* The (bids, asks) the caller's snapshots carry: a book without bids, three
\* books that differ in mid price and in imbalance, and a book whose levels
\* are all of size 0.
SignalSnapshots ==
    { << <<>>, <<<<3, 1>>>> >>,
      << <<<<1, 1>>>>, <<<<3, 1>>>> >>,
      << <<<<2, 2>>>>, <<<<3, 1>>>> >>,
      << <<<<1, 1>>>>, <<<<2, 3>>>> >>,
      << <<<<1, 0>>>>, <<<<3, 0>>>> >> }

InitSignals ==
    /\ orderbook = OrderBookInit(0)
    /\ signal_engine = SignalEngineInit(0, 0)
    /\ execution = None
    /\ strategy = None
    /\ accountant = None
    /\ replayer = None
    /\ trade_log = <<>>
    /\ pnl_history = <<>>
    /\ signal_history = <<>>
    /\ timestamps = <<>>
    /\ event_count = 0
    /\ pc = "init"
    /\ call = NoCall
    /\ ret = None
    /\ raised = NoException
    /\ second = None

\* OrderBook.apply_snapshot(bids, asks), by the caller of the signal engine.
SignalSnapshot ==
    /\ event_count < MaxUpdates
    /\ \E in \in SignalSnapshots :
          /\ orderbook' = apply_snapshot(orderbook, in[1], in[2])
          /\ call' = [op |-> "apply_snapshot", bids |-> in[1], asks |-> in[2]]
    /\ ret' = None
    /\ raised' = NoException
    /\ UNCHANGED <<signal_engine, execution, strategy, accountant, replayer,
                   trade_log, pnl_history, signal_history, timestamps, event_count,
                   pc, second>>

\* SignalEngine.update(orderbook)
SignalUpdate ==
    /\ event_count < MaxUpdates
    /\ signal_engine' = update(signal_engine, orderbook).se
    /\ ret' = update(signal_engine, orderbook).signals
    /\ raised' = update(signal_engine, orderbook).raised
    /\ call' = [op |-> "update"]
    /\ event_count' = event_count + 1
    /\ UNCHANGED <<orderbook, execution, strategy, accountant, replayer,
                   trade_log, pnl_history, signal_history, timestamps, pc, second>>

NextSignals == SignalSnapshot \/ SignalUpdate

SpecSignals == InitSignals /\ [][NextSignals]_vars

(***************************************************************************)
(* The strategy called directly: a caller that constructs a                *)
(* MeanReversionStrategy, with the arguments below or without them, and    *)
(* calls generate_signal with z-scores and positions drawn from the sets   *)
(* below.  The z-scores are held as their images under SignedSquare.       *)
(***************************************************************************)
EntryThresholds == {None, RZero, R(1)}

ExitThresholds == {None, RZero, R(1)}

OrderSizes == {None, R(1)}

\* The z-scores a snapshot may carry: the thresholds in use, values on either
\* side of each, and none.
ImbalanceZScores ==
    {None} \cup {SignedSquare(z) : z \in {R(-3), R(-2), R(-1), <<-1, 2>>, RZero,
                                          <<1, 2>>, R(1), R(2), R(3)}}

ReturnZScores == {None, SignedSquare(R(-3)), SignedSquare(R(3))}

Positions == {R(-2), RZero, R(1)}

SignalsWith(zi, zr) ==
    [mid_price |-> None, spread |-> None, mid_price_return |-> None,
     depth_imbalance |-> None, imbalance_zscore |-> zi, return_zscore |-> zr]

InitStrategy ==
    /\ strategy = StrategyInit(None, None, None)
    /\ orderbook = None
    /\ signal_engine = None
    /\ execution = None
    /\ accountant = None
    /\ replayer = None
    /\ trade_log = <<>>
    /\ pnl_history = <<>>
    /\ signal_history = <<>>
    /\ timestamps = <<>>
    /\ event_count = 0
    /\ pc = "init"
    /\ call = NoCall
    /\ ret = None
    /\ raised = NoException
    /\ second = None

\* MeanReversionStrategy(z_entry_threshold, z_exit_threshold, order_size)
Construct ==
    /\ \E e \in EntryThresholds, x \in ExitThresholds, o \in OrderSizes :
          /\ strategy' = StrategyInit(e, x, o)
          /\ call' = [op |-> "__init__", z_entry_threshold |-> e,
                      z_exit_threshold |-> x, order_size |-> o]
    /\ ret' = None
    /\ raised' = NoException
    /\ UNCHANGED <<orderbook, signal_engine, execution, accountant, replayer,
                   trade_log, pnl_history, signal_history, timestamps, event_count,
                   pc, second>>

\* MeanReversionStrategy.generate_signal(signals, current_position)
GenerateSignal ==
    /\ \E zi \in ImbalanceZScores, zr \in ReturnZScores, position \in Positions :
          /\ strategy' = generate_signal(strategy, SignalsWith(zi, zr), position).st
          /\ ret' = generate_signal(strategy, SignalsWith(zi, zr), position).decision
          /\ call' = [op |-> "generate_signal", imbalance_zscore |-> zi,
                      return_zscore |-> zr, current_position |-> position]
    /\ raised' = NoException
    /\ UNCHANGED <<orderbook, signal_engine, execution, accountant, replayer,
                   trade_log, pnl_history, signal_history, timestamps, event_count,
                   pc, second>>

NextStrategy == Construct \/ GenerateSignal

SpecStrategy == InitStrategy /\ [][NextStrategy]_vars

(***************************************************************************)
(* The calls on an ExecutionSimulator constructed with any of the rates of *)
(* TakerFees (none given, zero, one percent), against the books of         *)
(* FeeSnapshots.                                                           *)
(***************************************************************************)
TakerFees == {None, RZero, <<1, 100>>}

\* The (bids, asks) of the books orders are executed against: an empty book,
\* one level a side, two levels a side.
FeeSnapshots ==
    {<<<<>>, <<>>>>,
     <<<<<<2, 1>>>>, <<<<3, 1>>>>>>,
     <<<<<<2, 1>>, <<1, 2>>>>, <<<<3, 1>>, <<4, 2>>>>>>}

InitFees ==
    /\ execution = ExecutionInit(None)
    /\ orderbook = OrderBookInit(0)
    /\ signal_engine = None
    /\ strategy = None
    /\ accountant = None
    /\ replayer = None
    /\ trade_log = <<>>
    /\ pnl_history = <<>>
    /\ signal_history = <<>>
    /\ timestamps = <<>>
    /\ event_count = 0
    /\ pc = "init"
    /\ call = NoCall
    /\ ret = None
    /\ raised = NoException
    /\ second = None

\* ExecutionSimulator(taker_fee)
ConstructSimulator ==
    /\ \E taker_fee \in TakerFees :
          /\ execution' = ExecutionInit(taker_fee)
          /\ call' = [op |-> "__init__", taker_fee |-> taker_fee]
    /\ ret' = None
    /\ raised' = NoException
    /\ UNCHANGED <<orderbook, Unused>>

\* OrderBook.apply_snapshot(bids, asks) on the book the simulator is used on.
FeeSnapshot ==
    /\ \E in \in FeeSnapshots :
          /\ orderbook' = apply_snapshot(orderbook, in[1], in[2])
          /\ call' = [op |-> "apply_snapshot", bids |-> in[1], asks |-> in[2]]
    /\ ret' = None
    /\ raised' = NoException
    /\ UNCHANGED <<execution, Unused>>

\* ExecutionSimulator.execute_market_order(orderbook, side, quantity)
FeeOrder ==
    /\ \E side \in OrderSides, quantity \in Quantities :
          LET r == execute_market_order(execution, orderbook, side, R(quantity))
          IN  /\ ret' = r.value
              /\ raised' = r.raised
              /\ call' = [op |-> "execute_market_order", side |-> side,
                          quantity |-> quantity]
    /\ UNCHANGED <<orderbook, execution, Unused>>

NextFees == ConstructSimulator \/ FeeSnapshot \/ FeeOrder

SpecFees == InitFees /\ [][NextFees]_vars

(***************************************************************************)
(* BacktestEngine (src/main.py).  An engine is held as the record of its    *)
(* components, its histories and the position of run; the variables are    *)
(* the fields of the engine under test.                                    *)
(***************************************************************************)
BacktestEngineInit(data, initial_cash) ==
    [orderbook |-> OrderBookInit(0),
     signal_engine |-> SignalEngineInit(0, 0),
     strategy |-> StrategyInit(RZero, RZero, RZero),
     execution |-> ExecutionInit(None),
     accountant |-> AccountantInit(initial_cash),
     replayer |-> [data |-> data, current_index |-> 0],
     trade_log |-> <<>>,
     pnl_history |-> <<>>,
     signal_history |-> <<>>,
     timestamps |-> <<>>,
     event_count |-> 0,
     pc |-> "init",
     raised |-> NoException]

\* pnl_history appending only when the book has a mid price.
append_pnl_OnlyWithMid(history, acct, ob) ==
    IF mid_price(ob) # None
    THEN Append(history, get_metrics(acct, mid_price(ob)).total_pnl)
    ELSE history

\* The update of pnl_history that ends an iteration.
append_pnl(history, acct, ob) ==
    IF mid_price(ob) # None
    THEN Append(history, get_metrics(acct, mid_price(ob)).total_pnl)
    ELSE Append(history, acct.realized_pnl)

\* The iteration of run stops where the exception is raised and run is left.
Fail(e, exception) == [e EXCEPT !.pc = "failed", !.raised = exception]

\* The iteration ends: pnl_history gets its entry.
finish_iteration(e) ==
    [e EXCEPT !.pnl_history = append_pnl(@, e.accountant, e.orderbook)]

\* A variant of log_trade that reads the accountant's position and cash before
\* the fill is recorded.
log_trade_StateBeforeFill(e, event, side, fill, f) ==
    IF f.raised # NoException THEN Fail(e, f.raised)
    ELSE finish_iteration(
             [e EXCEPT !.accountant = f.acct,
                       !.trade_log = Append(@, [timestamp |-> event.timestamp,
                                                side |-> side,
                                                price |-> fill[1],
                                                size |-> fill[2],
                                                fee |-> fill[3],
                                                slippage |-> fill[4],
                                                position_after |-> e.accountant.position,
                                                cash_after |-> e.accountant.cash])])

\* A variant of log_trade in which pnl_history gets its entry before the fill
\* reaches the accountant.
log_trade_PnlBeforeFill(e, event, side, fill, f) ==
    IF f.raised # NoException THEN Fail(e, f.raised)
    ELSE [finish_iteration(e) EXCEPT
              !.accountant = f.acct,
              !.trade_log = Append(@, [timestamp |-> event.timestamp,
                                       side |-> side,
                                       price |-> fill[1],
                                       size |-> fill[2],
                                       fee |-> fill[3],
                                       slippage |-> fill[4],
                                       position_after |-> f.acct.position,
                                       cash_after |-> f.acct.cash])]

\* The fill has gone to the accountant: the trade is logged.
log_trade(e, event, side, fill, f) ==
    IF f.raised # NoException THEN Fail(e, f.raised)
    ELSE finish_iteration(
             [e EXCEPT !.accountant = f.acct,
                       !.trade_log = Append(@, [timestamp |-> event.timestamp,
                                                side |-> side,
                                                price |-> fill[1],
                                                size |-> fill[2],
                                                fee |-> fill[3],
                                                slippage |-> fill[4],
                                                position_after |-> f.acct.position,
                                                cash_after |-> f.acct.cash])])

\* A variant of record_execution in which a fill takes the best level of the
\* ladder it walked out of the book.
record_execution_ConsumesLiquidity(e, event, side, x) ==
    IF x.raised # NoException THEN Fail(e, x.raised)
    ELSE IF ~RLt(RZero, x.value[2]) THEN finish_iteration(e)
    ELSE log_trade([e EXCEPT !.orderbook =
                        IF Lower(side) = "buy" THEN [@ EXCEPT !.asks = Tail(@)]
                        ELSE [@ EXCEPT !.bids = Tail(@)]],
                   event, side, x.value,
                   record_fill(e.accountant, event.timestamp, side,
                               x.value[1], x.value[2], x.value[3]))

\* The order has been executed: a fill of positive size is recorded.
record_execution(e, event, side, x) ==
    IF x.raised # NoException THEN Fail(e, x.raised)
    ELSE IF ~RLt(RZero, x.value[2]) THEN finish_iteration(e)
    ELSE log_trade(e, event, side, x.value,
                   record_fill(e.accountant, event.timestamp, side,
                               x.value[1], x.value[2], x.value[3]))

\* The strategy has decided: an order is executed against the book.
execute_decision(e, event, g) ==
    IF g.decision = None THEN finish_iteration([e EXCEPT !.strategy = g.st])
    ELSE record_execution([e EXCEPT !.strategy = g.st], event, g.decision[1],
                          execute_market_order(e.execution, e.orderbook,
                                               g.decision[1], g.decision[2]))

\* The signals have been computed: they are stored and the strategy decides on
\* them and on the accountant's position.
store_signals(e, event, u) ==
    IF u.raised # NoException THEN Fail([e EXCEPT !.signal_engine = u.se], u.raised)
    ELSE execute_decision(
             [e EXCEPT !.signal_engine = u.se,
                       !.signal_history = Append(@, [timestamp |-> event.timestamp] @@ u.signals),
                       !.timestamps = Append(@, event.timestamp)],
             event,
             generate_signal(e.strategy, u.signals, e.accountant.position))

\* The book has been updated: the signals are computed on it.
compute_signals(e, event, d) ==
    IF d.raised # NoException THEN Fail(e, d.raised)
    ELSE store_signals([e EXCEPT !.orderbook = d.ob], event,
                       update(e.signal_engine, d.ob))

\* The update of the order book by a row.
update_order_book(ob, event) ==
    IF event.type = "snapshot"
    THEN [raised |-> NoException, ob |-> apply_snapshot(ob, event.bids, event.asks)]
    ELSE IF event.type = "update"
    THEN apply_diff(ob, event.side, event.price, event.size, event.action)
    ELSE [raised |-> NoException, ob |-> ob]

\* The row L2Replayer.__next__ hands over next.
next_row(e) == e.replayer.data[e.replayer.current_index + 1]

\* One iteration of the loop of run: the replayer hands over the next row and
\* the body of the loop processes it.
run_iteration(e) ==
    compute_signals([e EXCEPT !.replayer.current_index = @ + 1, !.event_count = @ + 1],
                    next_row(e),
                    update_order_book(e.orderbook, next_row(e)))

(***************************************************************************)
(* The runs of BacktestEngine.run over every sequence of at most MaxEvents *)
(* rows drawn from Rows.  A row is what L2Replayer.__next__ returns, with  *)
(* the fields its type does not carry left empty; rows come sorted by      *)
(* timestamp.                                                              *)
(***************************************************************************)
MaxEvents == 4

SnapshotRow(bid_size, ask_size) ==
    [type |-> "snapshot", bids |-> <<<<2, bid_size>>>>, asks |-> <<<<3, ask_size>>>>,
     side |-> NoneStr, price |-> 0, size |-> 0, action |-> NoneStr]

UpdateRow(side, price, size, action) ==
    [type |-> "update", bids |-> <<>>, asks |-> <<>>,
     side |-> side, price |-> price, size |-> size, action |-> action]

Rows ==
    {SnapshotRow(1, 1), SnapshotRow(2, 1), SnapshotRow(1, 2),
     UpdateRow("ask", 3, -1, "update"), UpdateRow("ask", 3, -3, "update"),
     UpdateRow("ask", 3, 0, "remove"), UpdateRow("trade", 3, 1, "update")}

DataSets ==
    {[i \in 1..Len(rows) |-> [timestamp |-> 10 * i] @@ rows[i]] :
        rows \in SeqsUpTo(Rows, MaxEvents)}

\* The engine under test, as a record.
Engine ==
    [orderbook |-> orderbook, signal_engine |-> signal_engine, strategy |-> strategy,
     execution |-> execution, accountant |-> accountant, replayer |-> replayer,
     trade_log |-> trade_log, pnl_history |-> pnl_history,
     signal_history |-> signal_history, timestamps |-> timestamps,
     event_count |-> event_count, pc |-> pc, raised |-> raised]

\* The engine under test is e in the initial state.
IsEngine(e) ==
    /\ orderbook = e.orderbook
    /\ signal_engine = e.signal_engine
    /\ strategy = e.strategy
    /\ execution = e.execution
    /\ accountant = e.accountant
    /\ replayer = e.replayer
    /\ trade_log = e.trade_log
    /\ pnl_history = e.pnl_history
    /\ signal_history = e.signal_history
    /\ timestamps = e.timestamps
    /\ event_count = e.event_count
    /\ pc = e.pc
    /\ raised = e.raised

\* The engine under test becomes e.
BecomesEngine(e) ==
    /\ orderbook' = e.orderbook
    /\ signal_engine' = e.signal_engine
    /\ strategy' = e.strategy
    /\ execution' = e.execution
    /\ accountant' = e.accountant
    /\ replayer' = e.replayer
    /\ trade_log' = e.trade_log
    /\ pnl_history' = e.pnl_history
    /\ signal_history' = e.signal_history
    /\ timestamps' = e.timestamps
    /\ event_count' = e.event_count
    /\ pc' = e.pc
    /\ raised' = e.raised

Init ==
    /\ \E data \in DataSets : IsEngine(BacktestEngineInit(data, R(INITIAL_CASH)))
    /\ call = NoCall
    /\ ret = None
    /\ second = None

\* run is entered.
Run ==
    /\ pc = "init"
    /\ BecomesEngine([Engine EXCEPT !.pc = "running"])
    /\ UNCHANGED <<call, ret, second>>

\* The replayer has a row left: one iteration of the loop.
ProcessEvent ==
    /\ pc = "running"
    /\ replayer.current_index < Len(replayer.data)
    /\ BecomesEngine(run_iteration(Engine))
    /\ UNCHANGED <<call, ret, second>>

\* The replayer raises StopIteration: the loop ends and run returns.
Completed ==
    /\ pc = "running"
    /\ replayer.current_index >= Len(replayer.data)
    /\ BecomesEngine([Engine EXCEPT !.pc = "completed"])
    /\ UNCHANGED <<call, ret, second>>

Next == Run \/ ProcessEvent \/ Completed

Spec == Init /\ [][Next]_vars

(***************************************************************************)
(* The runs of BacktestEngine.run over rows that move the bid while the    *)
(* sizes of the book sum to zero: a snapshot, an update that stores a      *)
(* negative ask size, and updates that add better bids.                    *)
(***************************************************************************)
WarmupRows ==
    {SnapshotRow(1, 1), SnapshotRow(2, 1),
     UpdateRow("ask", 3, -3, "update"),
     UpdateRow("bid", 3, 2, "update"), UpdateRow("bid", 8, 1, "update")}

WarmupDataSets ==
    {[i \in 1..Len(rows) |-> [timestamp |-> 10 * i] @@ rows[i]] :
        rows \in SeqsUpTo(WarmupRows, MaxEvents)}

InitWarmup ==
    /\ \E data \in WarmupDataSets : IsEngine(BacktestEngineInit(data, R(INITIAL_CASH)))
    /\ call = NoCall
    /\ ret = None
    /\ second = None

SpecWarmup == InitWarmup /\ [][Next]_vars

(***************************************************************************)
(* The replay of one input through two engines: `second` is an engine      *)
(* constructed like the engine under test, over the same rows, and each    *)
(* step of run is taken by the engine under test and then by the second.   *)
(***************************************************************************)
\* The two engines working on one SignalEngine object.
own_components_SharedSignalEngine(e, other) ==
    [e EXCEPT !.signal_engine = other.signal_engine]

\* The components an engine works on are the objects its own constructor made,
\* whatever other engines exist.
own_components(e, other) == e

InitReplay ==
    /\ \E data \in DataSets :
          /\ IsEngine(BacktestEngineInit(data, R(INITIAL_CASH)))
          /\ second = BacktestEngineInit(data, R(INITIAL_CASH))
    /\ call = NoCall
    /\ ret = None

ReplayRun ==
    /\ pc = "init"
    /\ BecomesEngine([Engine EXCEPT !.pc = "running"])
    /\ second' = [second EXCEPT !.pc = "running"]
    /\ UNCHANGED <<call, ret>>

ReplayEvent ==
    /\ pc = "running"
    /\ replayer.current_index < Len(replayer.data)
    /\ LET first == run_iteration(own_components(Engine, second))
       IN  /\ BecomesEngine(first)
           /\ second' = run_iteration(own_components(second, first))
    /\ UNCHANGED <<call, ret>>

ReplayCompleted ==
    /\ pc = "running"
    /\ replayer.current_index >= Len(replayer.data)
    /\ BecomesEngine([Engine EXCEPT !.pc = "completed"])
    /\ second' = [second EXCEPT !.pc = "completed"]
    /\ UNCHANGED <<call, ret>>

NextReplay == ReplayRun \/ ReplayEvent \/ ReplayCompleted

SpecReplay == InitReplay /\ [][NextReplay]_vars

(***************************************************************************)
(* Properties of the order book and of the execution simulator, checked    *)
(* under SpecBook.                                                         *)
(***************************************************************************)
StrictlyDescending(s) == \A i \in 1..(Len(s) - 1) : s[i][1] > s[i + 1][1]

StrictlyAscending(s) == \A i \in 1..(Len(s) - 1) : s[i][1] < s[i + 1][1]

\* C1: after any sequence of apply_snapshot and apply_diff calls, bids is strictly
\* descending by price (no price twice), asks is strictly ascending by price (no
\* price twice), and each ladder holds at most `depth` levels.
C1_LaddersStrictAndBounded ==
    /\ StrictlyDescending(orderbook.bids)
    /\ StrictlyAscending(orderbook.asks)
    /\ Len(orderbook.bids) <= orderbook.depth
    /\ Len(orderbook.asks) <= orderbook.depth

ExecCall == call.op = "execute_market_order"

ValidOrderSide == ExecCall /\ Lower(call.side) \in {"buy", "sell"}

\* The ladder the order of `call` walks: asks for a buy, bids for a sell.
WalkedLadder == IF Lower(call.side) = "buy" THEN orderbook.asks ELSE orderbook.bids

AllPositive(levels) == \A i \in 1..Len(levels) : levels[i][2] > 0

RECURSIVE SumSizes(_, _)
SumSizes(levels, k) == IF k = 0 THEN 0 ELSE SumSizes(levels, k - 1) + levels[k][2]

\* What an order of q takes at level i when every better level is taken first.
AmountAt(levels, i, q) == Max(0, Min(levels[i][2], q - SumSizes(levels, i - 1)))

RECURSIVE SumAmountTimesPrice(_, _, _)
SumAmountTimesPrice(levels, k, q) ==
    IF k = 0 THEN 0
    ELSE SumAmountTimesPrice(levels, k - 1, q) + AmountAt(levels, k, q) * levels[k][1]

\* C6: a buy (sell) of q > 0 against asks (bids) of positive sizes fills the levels
\* from best to worst, min(remaining, level size) at each: filled_size is
\* min(q, total size of the side), fill_price * filled_size is the sum over the
\* levels of amount * price, and a thin book gives a partial fill, not an error.
C6_WalkFillsBestToWorst ==
    (ValidOrderSide /\ call.quantity > 0 /\ AllPositive(WalkedLadder)) =>
        /\ raised = NoException
        /\ ret[2] = R(Min(call.quantity, SumSizes(WalkedLadder, Len(WalkedLadder))))
        /\ RMul(ret[1], ret[2]) =
               R(SumAmountTimesPrice(WalkedLadder, Len(WalkedLadder), call.quantity))

\* C6's case: a buy that takes the best ask whole and part of the next one.
C6_Witness ==
    /\ ExecCall
    /\ call.side = "buy"
    /\ Len(orderbook.asks) = 2
    /\ AllPositive(orderbook.asks)
    /\ orderbook.asks[1][2] < call.quantity
    /\ call.quantity < orderbook.asks[1][2] + orderbook.asks[2][2]
    /\ ret[2] = R(call.quantity)

\* C7: for every reachable book and every order the slippage returned is >= 0, and
\* it is 0 when the order is filled entirely at the top level.
C7_SlippageNonNegative ==
    (ValidOrderSide /\ raised = NoException) =>
        /\ RLe(RZero, ret[4])
        /\ (WalkedLadder # <<>> /\ call.quantity <= WalkedLadder[1][2]) => ret[4] = RZero

C9_InvalidOrderSideRaises ==
    (ExecCall /\ Lower(call.side) \notin {"buy", "sell"}) =>
        raised = "ValueError" /\ ret = None

\* C9's case: an invalid side together with a quantity that is not positive.
C9_Witness ==
    /\ ExecCall
    /\ Lower(call.side) \notin {"buy", "sell"}
    /\ call.quantity <= 0
    /\ orderbook.asks # <<>>
    /\ raised = "ValueError"

(***************************************************************************)
(* Properties of the accountant, checked under SpecAcct.                   *)
(***************************************************************************)
FillCall == call.op = "record_fill"

\* C10: every record_fill with side buy decreases cash by exactly size * price + fee
\* and every one with side sell increases it by exactly size * price - fee,
\* whichever position branch (open, extend, reduce, close, reverse) the fill takes.
C10_CashMovesByNotionalAndFee ==
    [][(call'.op = "record_fill" /\ raised' = NoException) =>
          /\ Lower(call'.side) = "buy" =>
                 accountant'.cash =
                     RSub(accountant.cash,
                          RAdd(RMul(call'.size, call'.price), call'.fee))
          /\ Lower(call'.side) = "sell" =>
                 accountant'.cash =
                     RAdd(accountant.cash,
                          RSub(RMul(call'.size, call'.price), call'.fee))]_vars

\* C10's case: a buy with a fee that reverses a short position into a long one.
C10_Witness ==
    /\ FillCall
    /\ raised = NoException
    /\ call.side = "buy"
    /\ call.fee # RZero
    /\ Len(accountant.trade_history) >= 2
    /\ RLt(accountant.trade_history[Len(accountant.trade_history) - 1].position_after, RZero)
    /\ RLt(RZero, accountant.position)

(***************************************************************************)
(* Properties of BacktestEngine.run, checked under Spec.                   *)
(***************************************************************************)
\* The row the last iteration took from the replayer.
LastRow == replayer.data[replayer.current_index]

\* The total PnL of an accountant marked against a book: at its mid price when
\* it has one, the realized PnL otherwise.
MarkedPnl(acct, ob) ==
    IF mid_price(ob) # None
    THEN get_metrics(acct, mid_price(ob)).total_pnl
    ELSE acct.realized_pnl

\* C3: every iteration of run that completes appends one entry to each of
\* pnl_history, signal_history and timestamps and touches no earlier entry, so
\* that the three lists are as long as the number of events processed; the
\* entries appended belong to the event just processed: its timestamp, the mid
\* price of the book it left and the total PnL of the accountant it left.
C3_HistoriesAlignedWithEvents ==
    [][(event_count' # event_count /\ pc' # "failed") =>
          /\ event_count' = event_count + 1
          /\ Len(pnl_history') = event_count'
          /\ Len(signal_history') = event_count'
          /\ Len(timestamps') = event_count'
          /\ DropLast(pnl_history') = pnl_history
          /\ DropLast(signal_history') = signal_history
          /\ DropLast(timestamps') = timestamps
          /\ timestamps'[event_count'] = replayer'.data[event_count'].timestamp
          /\ signal_history'[event_count'].timestamp = replayer'.data[event_count'].timestamp
          /\ signal_history'[event_count'].mid_price = mid_price(orderbook')
          /\ pnl_history'[event_count'] = MarkedPnl(accountant', orderbook')]_vars

C3_Witness ==
    /\ pc = "completed"
    /\ Len(pnl_history) >= 4
    /\ trade_log # <<>>
    /\ \E i \in 1..Len(signal_history) : signal_history[i].mid_price = None
    /\ \E i \in 1..Len(signal_history) : signal_history[i].imbalance_zscore # None

\* Every update row of the input carries side bid or ask.
ValidSides ==
    \A i \in 1..Len(replayer.data) :
        replayer.data[i].type = "update" => replayer.data[i].side \in {"bid", "ask"}

\* C4: run over a sequence of N rows (whose updates carry valid sides) goes
\* from init through running to completed and nowhere else: while it runs it
\* has taken the first event_count rows, in order, and no iteration fails; it
\* is completed only after exactly N iterations, the timestamps recorded being
\* then those of the input, in order.
C4_RunCompletesAfterEveryEvent ==
    ValidSides =>
        /\ pc \in {"init", "running", "completed"}
        /\ event_count = replayer.current_index
        /\ event_count <= Len(replayer.data)
        /\ pc = "init" => event_count = 0
        /\ pc = "completed" =>
              /\ event_count = Len(replayer.data)
              /\ timestamps = [i \in 1..Len(replayer.data) |-> replayer.data[i].timestamp]

\* C5: an iteration of run fails only on an update row whose side is neither
\* bid nor ask.
C5_OnlyInvalidSideFails ==
    pc = "failed" => (LastRow.type = "update" /\ LastRow.side \notin {"bid", "ask"})

\* An iteration of run has been taken and has not failed.
EventProcessed(count, count_after, pc_after) ==
    count_after # count /\ pc_after # "failed"

\* The decision the strategy st takes on the signals the engine se computes on
\* the book ob, the accountant holding acct.
EventDecision(se, st, acct, ob) ==
    generate_signal(st, update(se, ob).signals, acct.position).decision

\* The (fill_price, fill_size, fee, slippage) of the decision on the book ob.
EventFill(ex, ob, decision) ==
    execute_market_order(ex, ob, decision[1], decision[2]).value

\* 1 when the event whose mutation left the book ob has a trade due: a
\* decision was emitted and its execution filled a positive size; 0 otherwise.
TradesDue(se, st, acct, ex, ob) ==
    IF EventDecision(se, st, acct, ob) = None THEN 0
    ELSE IF RLt(RZero, EventFill(ex, ob, EventDecision(se, st, acct, ob))[2]) THEN 1
    ELSE 0

\* The trade and the accountant's record of one fill agree.
SameFill(trade, record) ==
    /\ trade.timestamp = record.timestamp
    /\ trade.side = record.side
    /\ trade.price = record.price
    /\ trade.size = record.size
    /\ trade.fee = record.fee
    /\ trade.position_after = record.position_after
    /\ trade.cash_after = record.cash_after

LogsAgree(log, history) ==
    /\ Len(log) = Len(history)
    /\ \A i \in 1..Len(log) : SameFill(log[i], history[i])

\* C31: an event of run appends a trade exactly when the strategy emitted a
\* decision and the execution returned filled_size > 0, one trade at most and
\* behind the earlier ones; after every event trade_log and the accountant's
\* trade_history are equally long and agree entry by entry on timestamp, side,
\* price, size, fee, position_after and cash_after.
C31_TradeLogMirrorsFills ==
    [][EventProcessed(event_count, event_count', pc') =>
          /\ Len(trade_log') =
                 Len(trade_log) + TradesDue(signal_engine, strategy, accountant,
                                            execution, orderbook')
          /\ SubSeq(trade_log', 1, Len(trade_log)) = trade_log
          /\ LogsAgree(trade_log', accountant'.trade_history)]_vars

\* One trade has been logged and a later event emitted the exit, which filled
\* nothing: no second trade, the position still open, the strategy flat.
C31_Witness ==
    /\ pc = "running"
    /\ Len(trade_log) = 1
    /\ Len(accountant.trade_history) = 1
    /\ trade_log[1].timestamp < timestamps[Len(timestamps)]
    /\ accountant.position # RZero
    /\ strategy.current_position = NoneStr

PreviousRecord(a) == a.trade_history[Len(a.trade_history) - 1]

\* A buy no larger than the short position held, or a sell no larger than the
\* long position held.
IsReduction(a, c) ==
    \/ Lower(c.side) = "buy" /\ RLt(a.position, RZero) /\ RLe(c.size, RAbs(a.position))
    \/ Lower(c.side) = "sell" /\ RLt(RZero, a.position) /\ RLe(c.size, a.position)

ReductionRealizes(a, b, c) ==
    /\ b.avg_entry_price = a.avg_entry_price
    /\ RAbs(b.position) = RSub(RAbs(a.position), c.size)
    /\ RSign(b.position) \in {0, RSign(a.position)}
    /\ (c.size = RAbs(a.position)) => b.position = RZero
    /\ Lower(c.side) = "buy" =>
           b.realized_pnl =
               RAdd(a.realized_pnl, RMul(RSub(a.avg_entry_price, c.price), c.size))
    /\ Lower(c.side) = "sell" =>
           b.realized_pnl =
               RAdd(a.realized_pnl, RMul(RSub(c.price, a.avg_entry_price), c.size))

\* C11: a buy of size s <= |position| while short adds (avg_entry_price - price) * s
\* to realized_pnl and a sell of size s <= position while long adds
\* (price - avg_entry_price) * s; the position moves toward zero by exactly s,
\* reaching 0 when s = |position|, and avg_entry_price is not changed.
C11_ReductionRealizesOnFillSize ==
    [][(call'.op = "record_fill" /\ raised' = NoException
            /\ IsReduction(accountant, call')) =>
          ReductionRealizes(accountant, accountant', call')]_vars

\* C11's case: a sell of part of a long position, at a price other than the
\* entry price.
C11_Witness ==
    /\ FillCall
    /\ raised = NoException
    /\ call.side = "sell"
    /\ Len(accountant.trade_history) >= 2
    /\ PreviousRecord(accountant).position_after = R(2)
    /\ accountant.position = R(1)
    /\ accountant.realized_pnl # RZero

\* A buy larger than the short position held, or a sell larger than the long
\* position held.
IsReversal(a, c) ==
    \/ Lower(c.side) = "buy" /\ RLt(a.position, RZero) /\ RLt(RAbs(a.position), c.size)
    \/ Lower(c.side) = "sell" /\ RLt(RZero, a.position) /\ RLt(a.position, c.size)

ReversalReplacesAverage(a, b, c) ==
    /\ b.avg_entry_price = c.price
    /\ RAbs(b.position) = RSub(c.size, RAbs(a.position))
    /\ RSign(b.position) = -RSign(a.position)
    /\ Lower(c.side) = "buy" =>
           b.realized_pnl =
               RAdd(a.realized_pnl,
                    RMul(RSub(a.avg_entry_price, c.price), RAbs(a.position)))
    /\ Lower(c.side) = "sell" =>
           b.realized_pnl =
               RAdd(a.realized_pnl,
                    RMul(RSub(c.price, a.avg_entry_price), RAbs(a.position)))

\* C12: a fill larger than the position it opposes realizes the PnL of the whole
\* old position against avg_entry_price, leaves a position of size
\* s - |position| of the opposite sign and sets avg_entry_price to the fill
\* price, with nothing of the old average in it.
C12_ReversalReplacesAverage ==
    [][(call'.op = "record_fill" /\ raised' = NoException
            /\ IsReversal(accountant, call')) =>
          ReversalReplacesAverage(accountant, accountant', call')]_vars

\* C12's case: a buy that turns a short position into a long one at a price
\* other than the one the short was entered at.
C12_Witness ==
    /\ FillCall
    /\ raised = NoException
    /\ call.side = "buy"
    /\ Len(accountant.trade_history) >= 2
    /\ RLt(PreviousRecord(accountant).position_after, RZero)
    /\ PreviousRecord(accountant).price # call.price
    /\ RLt(RZero, accountant.position)
    /\ accountant.avg_entry_price = call.price
    /\ accountant.realized_pnl # RZero

\* A buy while flat or long, or a sell while flat or short, of positive size.
IsExtension(a, c) ==
    /\ RLt(RZero, c.size)
    /\ \/ Lower(c.side) = "buy" /\ RLe(RZero, a.position)
       \/ Lower(c.side) = "sell" /\ RLe(a.position, RZero)

ExtensionAveragesEntry(a, b, c) ==
    /\ RAbs(b.position) = RAdd(RAbs(a.position), c.size)
    /\ Lower(c.side) = "buy" => RLt(RZero, b.position)
    /\ Lower(c.side) = "sell" => RLt(b.position, RZero)
    /\ b.realized_pnl = a.realized_pnl
    /\ b.avg_entry_price =
           RDiv(RAdd(RMul(RAbs(a.position), a.avg_entry_price), RMul(c.size, c.price)),
                RAdd(RAbs(a.position), c.size))
    /\ a.position = RZero => b.avg_entry_price = c.price

\* C13: a buy while flat or long, or a sell while flat or short, of size s > 0 at
\* price p grows |position| by s, leaves realized_pnl unchanged and sets
\* avg_entry_price to (|position| * avg_entry_price + s * p) / (|position| + s);
\* from flat that is p, whatever an earlier closed position left in
\* avg_entry_price.
C13_ExtensionAveragesEntry ==
    [][(call'.op = "record_fill" /\ raised' = NoException
            /\ IsExtension(accountant, call')) =>
          ExtensionAveragesEntry(accountant, accountant', call')]_vars

\* C13's case: a fill from flat after a position entered at another price was
\* closed.
C13_Witness ==
    /\ FillCall
    /\ raised = NoException
    /\ Len(accountant.trade_history) >= 3
    /\ PreviousRecord(accountant).position_after = RZero
    /\ accountant.trade_history[Len(accountant.trade_history) - 2].price # call.price
    /\ accountant.position # RZero
    /\ accountant.avg_entry_price = call.price

\* The record a successful call c appends, given the accountant b it leaves.
RecordOf(b, c) ==
    [timestamp |-> c.timestamp,
     side |-> Lower(c.side),
     price |-> c.price,
     size |-> c.size,
     fee |-> c.fee,
     position_after |-> b.position,
     cash_after |-> b.cash]

\* C14: trade_history is an append-only log.  A successful record_fill appends
\* exactly one record, that of the call, whose position_after and cash_after are
\* the position and cash the fill leaves, and touches no earlier record; a call
\* that raises leaves the accountant as it was.  (SpecAcct stamps the i-th
\* successful call with timestamp i, so the records are in call order.)
C14_TradeHistoryAppendOnly ==
    [][call'.op = "record_fill" =>
          IF raised' = NoException
          THEN /\ accountant'.trade_history =
                      Append(accountant.trade_history, RecordOf(accountant', call'))
               /\ \A i \in 1..Len(accountant'.trade_history) :
                      accountant'.trade_history[i].timestamp = i
          ELSE accountant' = accountant]_vars

\* C14's case: a third fill, after two that left other positions and cash.
C14_Witness ==
    /\ FillCall
    /\ raised = NoException
    /\ Len(accountant.trade_history) = 3
    /\ accountant.trade_history[1].position_after # accountant.trade_history[2].position_after
    /\ accountant.trade_history[2].position_after # accountant.trade_history[3].position_after
    /\ accountant.trade_history[2].cash_after # accountant.trade_history[3].cash_after
    /\ accountant.trade_history[3].position_after = accountant.position
    /\ accountant.trade_history[3].cash_after = accountant.cash

(***************************************************************************)
(* Properties of the accountant's reports, checked under SpecMetrics.      *)
(***************************************************************************)
\* The unrealized PnL of accountant a at mid price m.
UnrealizedAt(a, m) ==
    IF RLt(RZero, a.position) THEN RMul(RSub(m, a.avg_entry_price), a.position)
    ELSE IF RLt(a.position, RZero) THEN RMul(RSub(a.avg_entry_price, m), RAbs(a.position))
    ELSE RZero

MetricsAsSpecified(a, m, metrics) ==
    IF m = None
    THEN /\ metrics.unrealized_pnl = RZero
         /\ metrics.total_pnl = a.realized_pnl
         /\ metrics.total_value = a.cash
    ELSE /\ metrics.unrealized_pnl = UnrealizedAt(a, m)
         /\ metrics.total_pnl = RAdd(a.realized_pnl, UnrealizedAt(a, m))
         /\ metrics.total_value = RAdd(a.cash, RMul(a.position, m))

\* C15: get_metrics(m) reports unrealized_pnl = (m - avg_entry_price) * position
\* when long, (avg_entry_price - m) * |position| when short and 0 when flat,
\* total_pnl = realized_pnl + unrealized_pnl and total_value = cash + position * m;
\* without a mid price it reports 0, realized_pnl and cash; update_unrealized_pnl
\* returns the same unrealized PnL; neither call changes the accountant.
C15_MetricsMarkToMid ==
    [][/\ call'.op = "get_metrics" =>
              /\ accountant' = accountant
              /\ MetricsAsSpecified(accountant, call'.mid, ret')
       /\ call'.op = "update_unrealized_pnl" =>
              /\ accountant' = accountant
              /\ ret' = UnrealizedAt(accountant, call'.mid)]_vars

\* C15's case: the metrics of a short position that has realized PnL behind it,
\* at a mid price other than its entry price.
C15_Witness ==
    /\ call.op = "get_metrics"
    /\ call.mid # None
    /\ RLt(accountant.position, RZero)
    /\ accountant.realized_pnl # RZero
    /\ ret.unrealized_pnl # RZero
    /\ ret.total_pnl # ret.unrealized_pnl
    /\ ret.total_value # accountant.cash

(***************************************************************************)
(* Properties of apply_diff and of the book's quotes, checked under        *)
(* SpecBook.  A step of SpecBook that sets call to an apply_diff is that   *)
(* call: orderbook is the book before it and orderbook' the book after it. *)
(***************************************************************************)
DiffCall == call.op = "apply_diff"

ValidBookSide(side) == Lower(side) \in {"bid", "ask"}

\* The ladder of ob a valid side names, and the other one.
LadderOf(ob, side) == IF Lower(side) = "bid" THEN ob.bids ELSE ob.asks

OppositeOf(ob, side) == IF Lower(side) = "bid" THEN ob.asks ELSE ob.bids

HoldsPrice(ladder, price) == \E i \in 1..Len(ladder) : ladder[i][1] = price

\* C16: apply_diff with a valid side and with action remove or size <= 0 leaves
\* no level at `price` on that side, every other level of the side as it was
\* and the opposite side as it was.
C16_NonPositiveSizeRemoves ==
    [][(call'.op = "apply_diff" /\ ValidBookSide(call'.side)
            /\ (call'.action = "remove" \/ call'.size <= 0)) =>
          /\ raised' = NoException
          /\ ~HoldsPrice(LadderOf(orderbook', call'.side), call'.price)
          /\ LadderOf(orderbook', call'.side) =
                 WithoutPrice(LadderOf(orderbook, call'.side), call'.price)
          /\ OppositeOf(orderbook', call'.side) = OppositeOf(orderbook, call'.side)]_vars

\* C17: apply_diff with action remove for a price the named side does not hold
\* leaves bids and asks exactly as they were; and the book a remove leaves is
\* left as it is by the same remove applied again (twice gives what once
\* gives).
C17_RemoveAbsentIsNoOp ==
    [][(call'.op = "apply_diff" /\ call'.action = "remove"
            /\ ValidBookSide(call'.side)) =>
          /\ (~HoldsPrice(LadderOf(orderbook, call'.side), call'.price) =>
                 orderbook' = orderbook)
          /\ apply_diff(orderbook', call'.side, call'.price, call'.size,
                        call'.action).ob = orderbook']_vars

\* A remove that left a full ladder: the ladder cannot have been longer, so
\* the price was absent before the call.
C17_Witness ==
    /\ DiffCall /\ call.action = "remove" /\ call.size > 0
    /\ ValidBookSide(call.side) /\ raised = NoException
    /\ Len(LadderOf(orderbook, call.side)) = ORDER_BOOK_DEPTH

\* p is a better price than q on the side: higher for bids, lower for asks.
BetterPrice(side, p, q) == IF Lower(side) = "bid" THEN p > q ELSE p < q

\* The number of levels of the ladder priced better than `price`.
LevelsAhead(ladder, side, price) ==
    Cardinality({i \in 1..Len(ladder) : BetterPrice(side, ladder[i][1], price)})

\* What an upsert of (price, size) makes of the ladder `before` of a book of
\* the given depth.  Ranks count levels: the price is among the depth best when
\* fewer than depth prior levels are priced better than it.
UpsertedLadder(before, after, side, price, size, depth) ==
    /\ Cardinality({i \in 1..Len(after) : after[i][1] = price}) <= 1
    /\ \A i \in 1..Len(after) : after[i][1] = price => after[i][2] = size
    /\ HoldsPrice(after, price) <=> LevelsAhead(before, side, price) < depth
    /\ \A i \in 1..Len(after) :
           after[i][1] # price => \E j \in 1..Len(before) : before[j] = after[i]

\* C18: apply_diff with a valid side, size > 0 and action update leaves at most
\* one level at `price` on the side, of the new size if held; the level is held
\* exactly when `price` ranks among the depth best of the prior ladder's prices
\* together with `price`; every other held level is a prior level with its
\* size unchanged; the opposite side is unchanged.
C18_UpsertReplacesAndTruncates ==
    [][(call'.op = "apply_diff" /\ ValidBookSide(call'.side)
            /\ call'.size > 0 /\ call'.action = "update") =>
          /\ raised' = NoException
          /\ UpsertedLadder(LadderOf(orderbook, call'.side),
                            LadderOf(orderbook', call'.side),
                            call'.side, call'.price, call'.size, orderbook.depth)
          /\ OppositeOf(orderbook', call'.side) = OppositeOf(orderbook, call'.side)
          /\ orderbook'.depth = orderbook.depth]_vars

\* An upsert into a full ladder of distinct prices whose level was dropped by
\* the truncation.
C18_Witness ==
    /\ DiffCall /\ call.action = "update" /\ call.size > 0
    /\ ValidBookSide(call.side) /\ raised = NoException
    /\ Len(LadderOf(orderbook, call.side)) = orderbook.depth
    /\ LevelsAhead(LadderOf(orderbook, call.side), call.side, call.price)
           = orderbook.depth
    /\ \A i, j \in 1..orderbook.depth :
           i # j => LadderOf(orderbook, call.side)[i][1]
                       # LadderOf(orderbook, call.side)[j][1]

\* C19: apply_diff with a side other than bid/ask raises the invalid-side
\* error (a ValueError) whatever the action and the size, and leaves bids and
\* asks as they were.
C19_InvalidSideRaisesAndKeepsBook ==
    [][(call'.op = "apply_diff" /\ ~ValidBookSide(call'.side)) =>
          (raised' = "ValueError" /\ orderbook' = orderbook)]_vars

\* A remove with an invalid side and a positive size, raised on a book that
\* holds a level at the price on both sides.
C19_Witness ==
    /\ DiffCall /\ ~ValidBookSide(call.side) /\ raised = "ValueError"
    /\ call.action = "remove" /\ call.size > 0
    /\ HoldsPrice(orderbook.bids, call.price)
    /\ HoldsPrice(orderbook.asks, call.price)

PricesHeld(ladder) == {ladder[i][1] : i \in 1..Len(ladder)}

HighestPrice(ladder) ==
    CHOOSE p \in PricesHeld(ladder) : \A q \in PricesHeld(ladder) : p >= q

LowestPrice(ladder) ==
    CHOOSE p \in PricesHeld(ladder) : \A q \in PricesHeld(ladder) : p <= q

\* C20: in every book the mutations reach, mid_price and spread are present
\* exactly when both ladders are non-empty, best_bid (best_ask) is absent
\* exactly when bids (asks) is empty, and when present best_bid is the highest
\* bid price held, best_ask the lowest ask price held, mid_price is
\* (best_bid + best_ask) / 2 and spread is best_ask - best_bid.
C20_QuotesFollowLadders ==
    /\ (best_bid(orderbook) = None) <=> (orderbook.bids = <<>>)
    /\ (best_ask(orderbook) = None) <=> (orderbook.asks = <<>>)
    /\ (mid_price(orderbook) # None)
           <=> (orderbook.bids # <<>> /\ orderbook.asks # <<>>)
    /\ (spread(orderbook) # None)
           <=> (orderbook.bids # <<>> /\ orderbook.asks # <<>>)
    /\ orderbook.bids # <<>> =>
           best_bid(orderbook) = R(HighestPrice(orderbook.bids))
    /\ orderbook.asks # <<>> =>
           best_ask(orderbook) = R(LowestPrice(orderbook.asks))
    /\ (orderbook.bids # <<>> /\ orderbook.asks # <<>>) =>
           /\ mid_price(orderbook) =
                  RNorm(HighestPrice(orderbook.bids)
                            + LowestPrice(orderbook.asks), 2)
           /\ spread(orderbook) =
                  R(LowestPrice(orderbook.asks) - HighestPrice(orderbook.bids))

\* A diff has left two bids at different prices below the ask, and a mid
\* price that is not a whole number.
C20_Witness ==
    /\ DiffCall /\ raised = NoException
    /\ Cardinality(PricesHeld(orderbook.bids)) = 2
    /\ orderbook.asks # <<>>
    /\ mid_price(orderbook) = <<5, 2>>
    /\ spread(orderbook) = R(1)

\* _validate_invariant's condition: both quotes present and best_bid >= best_ask.
Crossed(ob) ==
    /\ ob.bids # <<>> /\ ob.asks # <<>>
    /\ ob.bids[1][1] >= ob.asks[1][1]

\* The call is a mutation of the book that names its side validly.
BookMutation(c) ==
    \/ c.op = "apply_snapshot"
    \/ c.op = "apply_diff" /\ ValidBookSide(c.side)

\* The book `after` is what the mutation c makes of `before` by sorting and
\* truncating alone.
MutationKept(before, after, c) ==
    IF c.op = "apply_snapshot"
    THEN /\ after.bids = Take(SortDesc(c.bids), before.depth)
         /\ after.asks = Take(SortAsc(c.asks), before.depth)
    ELSE /\ OppositeOf(after, c.side) = OppositeOf(before, c.side)
         /\ LadderOf(after, c.side) =
               IF c.action = "remove" \/ c.size = 0
               THEN WithoutPrice(LadderOf(before, c.side), c.price)
               ELSE LET kept == Append(WithoutPrice(LadderOf(before, c.side), c.price),
                                       <<c.price, c.size>>)
                    IN  Take(IF Lower(c.side) = "bid" THEN SortDesc(kept)
                             ELSE SortAsc(kept), before.depth)

UpdateCall == call.op = "update"

HasMid(ob) == ob.bids # <<>> /\ ob.asks # <<>>

AllAbsent(signals) ==
    /\ signals.mid_price = None /\ signals.spread = None
    /\ signals.mid_price_return = None /\ signals.depth_imbalance = None
    /\ signals.imbalance_zscore = None /\ signals.return_zscore = None

SameWindows(a, b) ==
    /\ a.mid_prices = b.mid_prices /\ a.returns = b.returns
    /\ a.imbalances = b.imbalances /\ a.prev_mid_price = b.prev_mid_price

\* C22: update on a book without a mid price (either side empty) returns a
\* snapshot with mid_price, spread, mid_price_return, depth_imbalance,
\* imbalance_zscore and return_zscore all absent, and leaves the three windows
\* and prev_mid_price as they were.
C22_NoMidLeavesEngineAlone ==
    [][(call'.op = "update" /\ ~HasMid(orderbook)) =>
          /\ raised' = NoException
          /\ AllAbsent(ret')
          /\ SameWindows(signal_engine, signal_engine')]_vars

\* An update on a book without bids, by an engine that holds a previous mid
\* price and a return.
C22_Witness ==
    /\ UpdateCall /\ ~HasMid(orderbook) /\ raised = NoException
    /\ signal_engine.prev_mid_price # None
    /\ signal_engine.returns # <<>>

\* C23: every update on a book with a mid price pushes one value into the
\* returns window (0.0 on the first observation, the log return on the
\* previous mid afterwards) and one into the mid-price window, and sets
\* prev_mid_price to the mid; so while no more than window_size such calls
\* have been made, the returns window holds as many values as calls.
C23_EveryUpdatePushesAReturn ==
    [][(call'.op = "update" /\ HasMid(orderbook)) =>
          /\ signal_engine'.returns =
                 DequeAppend(signal_engine.returns,
                             mid_price_return(signal_engine, mid_price(orderbook)),
                             signal_engine.window_size)
          /\ signal_engine'.mid_prices =
                 DequeAppend(signal_engine.mid_prices, mid_price(orderbook),
                             signal_engine.window_size + 1)
          /\ signal_engine'.prev_mid_price = mid_price(orderbook)
          /\ Len(signal_engine'.mid_prices) <= signal_engine.window_size =>
                 Len(signal_engine'.returns) = Len(signal_engine'.mid_prices)]_vars

\* The z-score zz is absent while the window, the value just pushed included,
\* holds fewer than window_size entries; when present, a value was pushed by
\* this update and zz scores it against the window_size - 1 entries before it.
ScoredAgainstPrior(before, after, pushed, zz, window_size) ==
    /\ Len(after) < window_size => zz = None
    /\ zz # None =>
          /\ pushed # None
          /\ after = DequeAppend(before, pushed, window_size)
          /\ Len(DropLast(after)) = window_size - 1
          /\ zz = z_score(pushed, DropLast(after)).value

\* C24: imbalance_zscore (return_zscore) is absent in every snapshot produced
\* while the imbalance (returns) window has fewer than window_size entries;
\* once present, it scores the value this very update pushed against exactly
\* the window_size - 1 values pushed before it.
C24_ZScoreAgainstPriorValues ==
    [][(call'.op = "update" /\ HasMid(orderbook) /\ raised' = NoException) =>
          /\ ScoredAgainstPrior(signal_engine.imbalances, signal_engine'.imbalances,
                                ret'.depth_imbalance, ret'.imbalance_zscore,
                                signal_engine.window_size)
          /\ ScoredAgainstPrior(signal_engine.returns, signal_engine'.returns,
                                ret'.mid_price_return, ret'.return_zscore,
                                signal_engine.window_size)]_vars

\* The last n entries of s, all of them if there are fewer.
KeepLast(s, n) == SubSeq(s, Max(1, Len(s) - n + 1), Len(s))

\* The window `after` is `before`, or `before` with one value pushed behind it
\* and, if that made it longer than capacity, its oldest entry gone.
PushedInOrder(before, after, capacity) ==
    \/ after = before
    \/ /\ after # <<>>
       /\ after = KeepLast(Append(before, after[Len(after)]), capacity)

\* C25: after every update, len(mid_prices) <= window_size + 1,
\* len(returns) <= window_size and len(imbalances) <= window_size, and each
\* window holds the values pushed most recently, in push order, the oldest
\* having left first.
C25_WindowsBoundedFifo ==
    [][call'.op = "update" =>
          /\ Len(signal_engine'.mid_prices) <= signal_engine.window_size + 1
          /\ Len(signal_engine'.returns) <= signal_engine.window_size
          /\ Len(signal_engine'.imbalances) <= signal_engine.window_size
          /\ PushedInOrder(signal_engine.mid_prices, signal_engine'.mid_prices,
                           signal_engine.window_size + 1)
          /\ PushedInOrder(signal_engine.returns, signal_engine'.returns,
                           signal_engine.window_size)
          /\ PushedInOrder(signal_engine.imbalances, signal_engine'.imbalances,
                           signal_engine.window_size)]_vars

\* The mid-price window is full of mid prices of books that have an
\* imbalance: window_size + 1 imbalances were pushed into a window of
\* window_size, so its oldest value has been evicted.
C25_Witness ==
    /\ UpdateCall /\ raised = NoException
    /\ Len(signal_engine.mid_prices) = signal_engine.window_size + 1
    /\ \A i \in 1..Len(signal_engine.mid_prices) :
           signal_engine.mid_prices[i] \in {<<5, 2>>, <<3, 2>>}
    /\ signal_engine.mid_prices[1] # signal_engine.mid_prices[2]
    /\ Len(signal_engine.imbalances) = signal_engine.window_size
    /\ signal_engine.imbalances[1] # signal_engine.imbalances[2]

\* The sum of the sizes of the first k levels of the ladder.
RECURSIVE TopSize(_, _)
TopSize(ladder, k) ==
    IF k = 0 \/ ladder = <<>> THEN 0
    ELSE ladder[1][2] + TopSize(Tail(ladder), k - 1)

\* The imbalance `imbalance` is what the sizes B and A of the two sides give.
ImbalanceOf(ob, B, A, imbalance) ==
    /\ (imbalance = None) <=> (ob.bids = <<>> \/ ob.asks = <<>> \/ B + A = 0)
    /\ imbalance # None =>
          /\ RMul(imbalance, R(B + A)) = R(B - A)
          /\ RLe(R(-1), imbalance) /\ RLe(imbalance, R(1))

\* C26: for every book reachable through apply_snapshot and apply_diff,
\* depth_imbalance is (B - A) / (B + A), B and A being the sums of the sizes of
\* the first imbalance_depth bid and ask levels; it is absent when a side has
\* no level or B + A = 0, and when present it lies in [-1, 1].
C26_ImbalanceWithinUnitRange ==
    ImbalanceOf(orderbook,
                TopSize(orderbook.bids, IMBALANCE_DEPTH),
                TopSize(orderbook.asks, IMBALANCE_DEPTH),
                calculate_depth_imbalance(SignalEngineInit(0, 0), orderbook))

(***************************************************************************)
(* Properties of MeanReversionStrategy, checked under SpecStrategy.  A     *)
(* step that sets call to a generate_signal is that call: strategy is the  *)
(* strategy before it, strategy' the strategy after it and ret' the        *)
(* decision returned.                                                      *)
(***************************************************************************)
SignalCall == call.op = "generate_signal"

\* The decision the strategy st returns on the single z-score zz.
DecisionOn(st, zz, position) ==
    generate_signal(st, SignalsWith(zz, None), position).decision

\* C27: generate_signal decides on imbalance_zscore whenever it is present,
\* whatever return_zscore is; on return_zscore only when imbalance_zscore is
\* absent; and returns no decision when both are absent.
C27_ImbalanceZScoreFirst ==
    [][call'.op = "generate_signal" =>
          ret' = IF call'.imbalance_zscore # None
                 THEN DecisionOn(strategy, call'.imbalance_zscore,
                                 call'.current_position)
                 ELSE IF call'.return_zscore # None
                 THEN DecisionOn(strategy, call'.return_zscore,
                                 call'.current_position)
                 ELSE None]_vars

\* Flat, with an imbalance z-score that buys and a return z-score that would
\* sell: the strategy buys.
C27_Witness ==
    /\ SignalCall /\ call.current_position = RZero
    /\ call.imbalance_zscore = SignedSquare(R(-3))
    /\ call.return_zscore = SignedSquare(R(3))
    /\ ret # None /\ ret[1] = "buy"

\* The value a constructor argument stands for: itself, the configuration's
\* value when the argument is not given.
Given(argument, configured) == IF argument = None THEN configured ELSE argument

\* The z-score generate_signal decides on.
DecidingZScore(c) ==
    IF c.imbalance_zscore # None THEN c.imbalance_zscore ELSE c.return_zscore

\* The decision of a flat strategy with the given entry threshold and order
\* size on the z-score zz.
EntryDecision(zz, entry_threshold, order_size) ==
    IF ZLt(zz, RNeg(entry_threshold)) THEN <<"buy", order_size>>
    ELSE IF ZGt(zz, entry_threshold) THEN <<"sell", order_size>>
    ELSE None

SameConfiguration(a, b) ==
    /\ a.z_entry_threshold = b.z_entry_threshold
    /\ a.z_exit_threshold = b.z_exit_threshold
    /\ a.order_size = b.order_size

\* C28: the strategy holds the entry threshold and the order size it was
\* constructed with; with position 0 and z-score z, generate_signal returns
\* (buy, order_size) exactly when z < -entry_threshold, (sell, order_size)
\* exactly when z > entry_threshold and no decision otherwise, never both; and
\* the call leaves the configuration as it was.
C28_EntryOnConstructedThreshold ==
    [][/\ call'.op = "__init__" =>
             /\ strategy'.z_entry_threshold =
                    Given(call'.z_entry_threshold, R(Z_ENTRY_THRESHOLD))
             /\ strategy'.order_size = Given(call'.order_size, R(ORDER_SIZE))
       /\ (/\ call'.op = "generate_signal"
           /\ call'.current_position = RZero
           /\ DecidingZScore(call') # None) =>
             /\ ret' = EntryDecision(DecidingZScore(call'),
                                     strategy.z_entry_threshold, strategy.order_size)
             /\ ~(/\ ZLt(DecidingZScore(call'), RNeg(strategy.z_entry_threshold))
                  /\ ZGt(DecidingZScore(call'), strategy.z_entry_threshold))
             /\ SameConfiguration(strategy, strategy')]_vars

\* The decision of a strategy with the given exit threshold that holds the
\* position (not 0) on the z-score zz: the order that flattens, or none.
ExitDecision(zz, exit_threshold, position) ==
    IF RLt(RZero, position)
    THEN IF ~ZLt(zz, RNeg(exit_threshold)) THEN <<"sell", RAbs(position)>> ELSE None
    ELSE IF ~ZGt(zz, exit_threshold) THEN <<"buy", RAbs(position)>> ELSE None

\* The order, if any, does not add to the position: it is on the opposite side.
NoAddedExposure(decision, position) ==
    decision # None =>
        decision[1] = (IF RLt(RZero, position) THEN "sell" ELSE "buy")

\* C29: the strategy holds the exit threshold it was constructed with; with an
\* open position generate_signal never returns an order that adds exposure:
\* long, it returns (sell, |position|) exactly when z >= -exit_threshold; short,
\* (buy, |position|) exactly when z <= exit_threshold; nothing otherwise.
C29_ExitOnConstructedThreshold ==
    [][/\ call'.op = "__init__" =>
             strategy'.z_exit_threshold =
                 Given(call'.z_exit_threshold, Z_EXIT_THRESHOLD)
       /\ (/\ call'.op = "generate_signal"
           /\ call'.current_position # RZero
           /\ DecidingZScore(call') # None) =>
             /\ ret' = ExitDecision(DecidingZScore(call'), strategy.z_exit_threshold,
                                    call'.current_position)
             /\ NoAddedExposure(ret', call'.current_position)
             /\ SameConfiguration(strategy, strategy')]_vars

\* The strategy st with other internal bookkeeping.
WithBookkeeping(st, position_state, z) ==
    [st EXCEPT !.current_position = position_state, !.entry_z_score = z]

\* C30: the decision of generate_signal depends only on its arguments and on
\* the configured thresholds and order size: an instance of the same
\* configuration with any other current_position and entry_z_score returns
\* the same decision for the same arguments.
C30_DecisionIgnoresBookkeeping ==
    [][call'.op = "generate_signal" =>
          \A position_state \in {"long", "short", NoneStr}, z \in ReturnZScores :
              generate_signal(WithBookkeeping(strategy, position_state, z),
                              SignalsWith(call'.imbalance_zscore, call'.return_zscore),
                              call'.current_position).decision = ret']_vars

\* A strategy that holds itself long is asked with position 0 and a z-score
\* of 0: it returns no decision, where a long strategy would sell.
C30_Witness ==
    /\ SignalCall /\ call.current_position = RZero
    /\ call.imbalance_zscore = RZero
    /\ strategy.current_position = "long"
    /\ ret = None

(***************************************************************************)
(* Properties of the per-event transition of BacktestEngine.run, checked   *)
(* under Spec.  A step that raises event_count is one iteration of run:    *)
(* the unprimed variables are the engine before the event, the primed ones *)
(* the engine after it.                                                    *)
(***************************************************************************)
\* realized_pnl plus the unrealized PnL of the position marked at the mid
\* price of the book; realized_pnl alone when the book has none.
PnlAfterEvent(acct, ob) ==
    IF HasMid(ob)
    THEN RAdd(acct.realized_pnl, UnrealizedAt(acct, mid_price(ob)))
    ELSE acct.realized_pnl

\* C32: the value an event appends to pnl_history is realized_pnl plus the
\* unrealized PnL marked at the mid price of the book the event left, both
\* taken from the accountant after any fill of that event; and the
\* accountant's realized_pnl when that book has no mid price.
C32_PnlMarkedAfterFill ==
    [][EventProcessed(event_count, event_count', pc') =>
          pnl_history'[Len(pnl_history')] = PnlAfterEvent(accountant', orderbook')]_vars

\* The last event filled an order and its PnL entry carries an unrealized
\* part, after an earlier event that left the book without a mid price.
C32_Witness ==
    /\ pc = "running"
    /\ trade_log # <<>>
    /\ trade_log[Len(trade_log)].timestamp = timestamps[Len(timestamps)]
    /\ HasMid(orderbook)
    /\ pnl_history[Len(pnl_history)] # accountant.realized_pnl
    /\ \E i \in 1..Len(signal_history) : signal_history[i].mid_price = None

\* The position state the sign of a position stands for.
PositionState(position) ==
    IF RLt(RZero, position) THEN "long"
    ELSE IF RLt(position, RZero) THEN "short"
    ELSE NoneStr

\* C33: after every event processed by run, the strategy's current_position
\* agrees with the sign of the accountant's position: long iff position > 0,
\* short iff position < 0, None iff position = 0, also after a decision whose
\* execution filled nothing or a part of the quantity.
C33_StrategyTracksPosition ==
    pc \in {"running", "completed"} =>
        strategy.current_position = PositionState(accountant.position)

\* The row the event numbered count was handed by the replayer.
EventRow(rep, count) == rep.data[count]

\* C34: within one event of run the book is changed only by the event's
\* apply_snapshot or apply_diff: after the event bids and asks are what that
\* mutation left, so update, generate_signal and execute_market_order leave
\* them alone and a fill takes no liquidity out of the book; the signals
\* stored and the fill logged are those computed on that same book.
C34_OnlyTheEventMovesTheBook ==
    [][EventProcessed(event_count, event_count', pc') =>
          /\ orderbook' =
                 update_order_book(orderbook, EventRow(replayer', event_count')).ob
          /\ signal_history'[Len(signal_history')].mid_price = mid_price(orderbook')
          /\ TradesDue(signal_engine, strategy, accountant, execution, orderbook') = 1 =>
                 /\ trade_log'[Len(trade_log')].price =
                        EventFill(execution, orderbook',
                                  EventDecision(signal_engine, strategy,
                                                accountant, orderbook'))[1]
                 /\ trade_log'[Len(trade_log')].size =
                        EventFill(execution, orderbook',
                                  EventDecision(signal_engine, strategy,
                                                accountant, orderbook'))[2]]_vars

\* The last event bought every ask of the book, and the asks are still there.
C34_Witness ==
    /\ pc = "running"
    /\ trade_log # <<>>
    /\ trade_log[Len(trade_log)].timestamp = timestamps[Len(timestamps)]
    /\ trade_log[Len(trade_log)].side = "buy"
    /\ orderbook.asks # <<>>
    /\ trade_log[Len(trade_log)].size =
           R(SumSizes(orderbook.asks, Len(orderbook.asks)))

\* C35: when an event of run fails, the order book, the signal engine (its
\* windows and prev_mid_price), the accountant, the strategy's bookkeeping and
\* the four history lists are what they were before that event.
C35_FailedEventLeavesNoTrace ==
    [][(pc = "running" /\ pc' = "failed") =>
          /\ orderbook' = orderbook
          /\ signal_engine' = signal_engine
          /\ accountant' = accountant
          /\ strategy' = strategy
          /\ trade_log' = trade_log
          /\ pnl_history' = pnl_history
          /\ signal_history' = signal_history
          /\ timestamps' = timestamps]_vars

\* The position after a fill lies between flat and the position before it.
TowardsFlat(before, after) ==
    \/ RLe(RZero, after) /\ RLe(after, before)
    \/ RLe(before, after) /\ RLe(after, RZero)

\* C37: with every level of the book of positive size, after an event of run
\* |position| <= order_size, and no fill crosses through zero: a fill on a
\* flat position opens at most order_size, a fill on an open position takes
\* it towards flat and no further, so record_fill never reverses a position.
C37_PositionWithinOrderSize ==
    [][(/\ EventProcessed(event_count, event_count', pc')
        /\ AllPositive(orderbook'.bids)
        /\ AllPositive(orderbook'.asks)) =>
          /\ RLe(RAbs(accountant'.position), strategy.order_size)
          /\ accountant.position # RZero =>
                 TowardsFlat(accountant.position, accountant'.position)]_vars

\* A short position of order_size has been closed in part: the exit found
\* less liquidity than the position, which stays short.
C37_Witness ==
    /\ pc = "running"
    /\ Len(trade_log) = 2
    /\ trade_log[1].position_after = RNeg(strategy.order_size)
    /\ trade_log[2].side = "buy"
    /\ RLt(accountant.position, RZero)
    /\ RLt(trade_log[1].position_after, accountant.position)
    /\ AllPositive(orderbook.bids)
    /\ AllPositive(orderbook.asks)

(***************************************************************************)
(* The snapshot returned by SignalEngine.update, checked under SpecSignals. *)
(***************************************************************************)
\* C39: in every snapshot update returns, imbalance_zscore is present only if
\* depth_imbalance is present, and return_zscore only if mid_price_return is:
\* no z-score for an event whose own value is absent.
C39_ZScoreOnlyWithOwnValue ==
    (call.op = "update" /\ raised = NoException) =>
        /\ ret.imbalance_zscore # None => ret.depth_imbalance # None
        /\ ret.return_zscore # None => ret.mid_price_return # None

(***************************************************************************)
(* The accounting identity, checked under SpecAcct.                        *)
(***************************************************************************)
\* The fees of the fills recorded in history, summed.
FeesPaid(history) == RSum([i \in 1..Len(history) |-> history[i].fee])

\* C38: after any sequence of record_fill calls with positive sizes and
\* prices, cash + position * avg_entry_price = initial_cash + realized_pnl -
\* the fees of all fills, the position signed; hence at every mid price
\* total_value - initial_cash = total_pnl - the fees: total_pnl is gross of
\* fees.
C38_CashIdentityGrossOfFees ==
    /\ RAdd(accountant.cash, RMul(accountant.position, accountant.avg_entry_price)) =
           RSub(RAdd(accountant.initial_cash, accountant.realized_pnl),
                FeesPaid(accountant.trade_history))
    /\ \A mid \in MidPrices :
           RSub(get_metrics(accountant, mid).total_value, accountant.initial_cash) =
               RSub(get_metrics(accountant, mid).total_pnl,
                    FeesPaid(accountant.trade_history))

\* A long position has been sold through to a short one, fees having been
\* paid and a PnL realized.
C38_Witness ==
    /\ Len(accountant.trade_history) = MaxFills
    /\ \E i \in 1..(MaxFills - 1) :
           /\ RLt(RZero, accountant.trade_history[i].position_after)
           /\ RLt(accountant.trade_history[i + 1].position_after, RZero)
    /\ FeesPaid(accountant.trade_history) # RZero
    /\ accountant.realized_pnl # RZero
    /\ accountant.position # RZero

(***************************************************************************)
(* Properties of the fees of the execution simulator, checked under        *)
(* SpecFees.                                                               *)
(***************************************************************************)
\* C36: the simulator holds the rate it was constructed with, whatever rate
\* >= 0 that is, zero included; the fee execute_market_order returns is
\* filled_size * fill_price * that rate, and 0 when nothing is filled.
C36_FeeAtConstructedRate ==
    [][/\ call'.op = "__init__" =>
             execution'.taker_fee = Given(call'.taker_fee, TAKER_FEE)
       /\ (call'.op = "execute_market_order" /\ raised' = NoException) =>
             /\ execution' = execution
             /\ ret'[3] = RMul(RMul(ret'[2], ret'[1]), execution.taker_fee)
             /\ ret'[2] = RZero => ret'[3] = RZero]_vars

(***************************************************************************)
(* The warm-up of a backtest, checked under SpecWarmup.                    *)
(***************************************************************************)
\* No trade has been logged, the position is 0 and the strategy is flat.
NothingTraded ==
    /\ trade_log = <<>>
    /\ accountant.position = RZero
    /\ strategy.current_position = NoneStr

====
